---- MODULE Spec2Model ----
(***************************************************************************)
(* Dalil Runner control plane.                                             *)
(*                                                                         *)
(*   Spec       the Control Protocol of one running controller: the HTTP   *)
(*              handlers of startRunnerServer acting on state.fields,      *)
(*              state.undo and the live page, for requests that arrive one *)
(*              after the other, with a data directory that takes writes.  *)
(*   ServeSpec  the same with every endpoint, with requests that are       *)
(*              malformed, unknown or lack a fieldId, and with writes of   *)
(*              runtime.json that fail.                                    *)
(*   ConcSpec   the handlers of requests that overlap in time, one step    *)
(*              per await.                                                 *)
(*   LifeSpec   the Session Lifecycle of cmdRun: start, publication of the *)
(*              connection descriptor, stop, signals, for two controller   *)
(*              processes sharing one data directory.                      *)
(*   StopSpec   the lifecycle without faults from outside the process.     *)
(*   PubSpec    the write of the descriptor file, byte-wise, and its       *)
(*              readers.                                                   *)
(*   GuardSpec  the browser context, its pages and the init script.        *)
(*   LabelSpec  readLabel on every combination of label sources.           *)
(*   TuiSpec    the keypress loop of runInteractiveTui.                    *)
(*   DomSpec    scans of a document that changes between them.             *)
(*   ApplySpec  the apply command and the TUI's apply against a running    *)
(*   ClientSpec controller; client commands while a controller starts,     *)
(*              stops and dies.                                            *)
(***************************************************************************)
EXTENDS Integers, Sequences, FiniteSets, TLC

\* ------------------------------------------------------------------ bounds
MaxTexts == 3          \* how many of the texts of TextList are tried as payloads

\* ------------------------------------------------------- the page (DOM)
\* Text payloads and field values are sequences of characters; "NL" is the
\* newline character.
TextList == << <<>>, <<"a">>, <<"NL">>, <<"a", "NL">>, <<"NL", "a">>, <<"a", "a">> >>

Texts == {TextList[i] : i \in 1..(IF MaxTexts < Len(TextList) THEN MaxTexts ELSE Len(TextList))}

\* The selectors (cssPath results) of the elements of the page, in document
\* order; the three elements sit in one <form>.
PathOrder == <<"p1", "p2", "p3">>

Paths == {PathOrder[i] : i \in 1..Len(PathOrder)}

\* The element kinds (tag and type, as scan reports them) a page may hold at
\* each selector: p1 is a single-line input or the form's submit button, p2 a
\* textarea, p3 a hidden input.
KindsAt(p) ==
  CASE p = "p1" -> {"input:text", "input:submit"}
    [] p = "p2" -> {"textarea"}
    [] OTHER    -> {"input:hidden"}

\* readLabel's result for the element at p (its name attribute)
LabelOf(p) ==
  CASE p = "p1" -> "name"
    [] p = "p2" -> "intro"
    [] OTHER    -> "token"

VARIABLES
  page,        \* page[p] = [present, kind, value]: the element selector p finds
  pageEvents,  \* what the driver calls of the latest request triggered in the page
  fields,      \* state.fields
  undo,        \* state.undo : fieldId -> previous value (a partial map)
  runtime,     \* the persisted RuntimeSnapshot (runtime.json)
  resp,        \* the response to the latest request
  last,        \* the latest step: a request or a page change (history variable)
  quiet,       \* no set or type request has found its field since the latest
               \* successful scan (history variable)
  pc,          \* LifeSpec: where each controller process is in cmdRun
  tui,         \* LifeSpec: the process runs the interactive TUI (not --daemon)
  port,        \* LifeSpec: the port the process was asked to listen on
  stopped,     \* LifeSpec: cmdRun's `stopped` flag
  listening,   \* LifeSpec: the process's http server accepts connections
  ctx,         \* LifeSpec: the process's browser context / CDP connection
  descriptor,  \* LifeSpec: the connection descriptor file of the data directory
  dom,         \* DomSpec: the form elements of the document, per parent <div>
  prevScan,    \* DomSpec: the result of the scan before the latest one
  curScan,     \* DomSpec: the result of the latest scan
  change,      \* DomSpec: the latest change of the document (history variable)
  bind,        \* the address each process gave its latest server.listen call
  client,      \* the CLI command (or TUI key action) in progress, see NoClient
  inflight,    \* ConcSpec: the request handlers in progress, see NoHandler
  file,        \* PubSpec: the bytes of the descriptor file, and what the
               \* latest loadRunnerConnection made of them
  browser,     \* GuardSpec: the browser the controller drives, see NoBrowser
  lab,         \* LabelSpec: an element's label sources and what readLabel
               \* returned for it, see LabelIdle
  loop         \* TuiSpec: runInteractiveTui's keypress loop, see NoLoop

protoVars == <<page, pageEvents, fields, undo, runtime, resp, last, quiet>>
lifeVars == <<pc, tui, port, stopped, listening, ctx, descriptor>>
domVars == <<dom, prevScan, curScan, change>>
auxVars == <<inflight, file, browser, lab, loop>>
vars == <<page, pageEvents, fields, undo, runtime, resp, last, quiet,
          pc, tui, port, stopped, listening, ctx, descriptor,
          dom, prevScan, curScan, change, bind, client,
          inflight, file, browser, lab, loop>>

\* --------------------------------------------------------- Field Registry
\* makeFieldId: sha1 of "domPath::label::type"; the digest is modelled by the
\* triple it is computed from (no collisions).
makeFieldId(domPath, label, type) == <<domPath, label, type>>

\* a fieldId no scan of this page produces
UnknownId == <<"p0", "none", "textarea">>

\* the querySelectorAll selector of the scan:
\* input:not([type=hidden]):not([type=password]):not([type=file]), textarea
Eligible(kind) ==
  /\ kind \in {"input:text", "input:submit", "input:password", "input:hidden",
               "input:file", "textarea"}
  /\ kind \notin {"input:hidden", "input:password", "input:file"}

\* (variant: the label that goes into the id tells a filled field from an empty one)
Descriptor_Valued(pg, p) ==
  [fieldId |-> makeFieldId(p, IF pg[p].value = <<>> THEN LabelOf(p) ELSE "filled", pg[p].kind),
   domPath |-> p, type |-> pg[p].kind, label |-> LabelOf(p)]

Descriptor(pg, p) ==
  [fieldId |-> makeFieldId(p, LabelOf(p), pg[p].kind),
   domPath |-> p, type |-> pg[p].kind, label |-> LabelOf(p)]

RECURSIVE ScanFrom(_, _)
ScanFrom(pg, i) ==
  IF i > Len(PathOrder) THEN <<>>
  ELSE LET p == PathOrder[i] IN
       (IF pg[p].present /\ Eligible(pg[p].kind) THEN <<Descriptor(pg, p)>> ELSE <<>>)
       \o ScanFrom(pg, i + 1)

scanFieldsOnPage(pg) == ScanFrom(pg, 1)

\* (variant: a lookup that falls back to the last descriptor when nothing matches)
FindField_OrLast(fs, fieldId) ==
  IF \E i \in 1..Len(fs) : fs[i].fieldId = fieldId
  THEN CHOOSE i \in 1..Len(fs) : fs[i].fieldId = fieldId
  ELSE Len(fs)

\* state.fields.find((f) => f.fieldId === fieldId): index of the first match, 0 if none
FindField(fs, fieldId) ==
  IF \E i \in 1..Len(fs) : fs[i].fieldId = fieldId
  THEN CHOOSE i \in 1..Len(fs) :
         /\ fs[i].fieldId = fieldId
         /\ \A j \in 1..(i - 1) : fs[j].fieldId # fieldId
  ELSE 0

\* ------------------------------------------------------- page operations
\* (variant: the existence check always passes)
ensureFieldExists_Always(pg, domPath) == TRUE

ensureFieldExists(pg, domPath) == pg[domPath].present

\* removes the newlines of a text
RECURSIVE StripNL(_)
StripNL(t) ==
  IF t = <<>> THEN <<>>
  ELSE (IF Head(t) = "NL" THEN <<>> ELSE <<Head(t)>>) \o StripNL(Tail(t))

\* (variant: the value is read with its line breaks dropped)
readFieldValue_Stripped(pg, domPath) == StripNL(pg[domPath].value)

\* node.value || ""
readFieldValue(pg, domPath) == pg[domPath].value

\* The value an element holds after `node.value = payload`: a single-line
\* input strips newlines (value sanitization), a textarea keeps them.
Assigned(kind, payload) ==
  IF kind \in {"input:text", "input:password"} THEN StripNL(payload) ELSE payload

setFieldValue(pg, domPath, text) ==
  [pg EXCEPT ![domPath].value = Assigned(pg[domPath].kind, text)]

\* locator.fill accepts text-like inputs and textareas only
Fillable(kind) == kind \in {"input:text", "input:password", "textarea"}

\* locator.type: one key per character.  A newline is the Enter key: it adds
\* a line to a textarea and implicitly submits the form of a single-line input.
RECURSIVE TypedValue(_, _)
TypedValue(kind, t) ==
  IF t = <<>> THEN <<>>
  ELSE (IF Head(t) = "NL" /\ kind # "textarea" THEN <<>> ELSE <<Head(t)>>)
       \o TypedValue(kind, Tail(t))

\* events the three driver calls of typeIntoField trigger in the page
TypeEvents(kind, text) ==
  (IF kind = "input:submit" THEN {"click-submit", "form-submit"} ELSE {})
  \cup
  (IF Fillable(kind) /\ kind # "textarea" /\ \E i \in 1..Len(text) : text[i] = "NL"
   THEN {"form-submit"} ELSE {})

\* ------------------------------------------------------------- responses
\* sendJson(res, status, {ok, error}): the transport status and the payload's
\* success flag and reason
Ok == [status |-> 200, ok |-> TRUE, error |-> "none"]
NotFound == [status |-> 404, ok |-> FALSE, error |-> "Field not found."]
NotScanned == [status |-> 404, ok |-> FALSE, error |-> "Field not found. Run scan first."]
NoUndoAvailable == [status |-> 404, ok |-> FALSE, error |-> "No undo snapshot available."]
DriverError == [status |-> 500, ok |-> FALSE, error |-> "driver"]

\* (variant: the vanished element is reported in the payload only)
Gone_InPayloadOnly == [status |-> 200, ok |-> FALSE, error |-> "Field no longer exists on page."]

Gone == [status |-> 410, ok |-> FALSE, error |-> "Field no longer exists on page."]

UnknownEndpointError == [status |-> 404, ok |-> FALSE, error |-> "Unknown endpoint."]

\* (variant: a body that does not parse gets no response)
ParseError_Unanswered == [status |-> 0, ok |-> FALSE, error |-> "pending"]

\* the catch block's answer to the rejection of parseUrlBody (JSON.parse threw)
ParseError == [status |-> 500, ok |-> FALSE, error |-> "SyntaxError"]

\* driver faults a page call can end in ("none": the call returns)
Faults == {"none", "driver"}

\* the catch block's answer when saveRuntimeState throws (writeFileSync: the
\* disk is full, the data directory is not writable)
PersistError == [status |-> 500, ok |-> FALSE, error |-> "persist"]

\* what the page call of setFieldValue can end in.  "late": page.evaluate
\* rejects although the script it ran has assigned the value (the execution
\* context goes away while the input and change events are dispatched)
SetFaults == Faults \cup {"late"}

\* what a scan request can end in
ScanFaults == Faults \cup {"persist"}

\* the latest step.  For a successful set_field_value, before is the value the
\* field held just before it and streak tells how many successful sets of that
\* field in a row it completes (2 stands for two or more).  For a revert,
\* again tells that the step just before it was a successful revert of the
\* same field.
Req(op, fieldId) ==
  [op |-> op, fieldId |-> fieldId, before |-> <<>>, streak |-> 0, again |-> FALSE]

Mutated(op, fieldId, prev) ==
  [op |-> op, fieldId |-> fieldId, before |-> prev,
   streak |-> IF last.op = op /\ last.fieldId = fieldId /\ last.streak > 0 THEN 2 ELSE 1,
   again |-> FALSE]

\* a revert request carries over what the set just before it recorded
Reverting(fieldId) ==
  IF last.op = "set" /\ last.fieldId = fieldId
  THEN [last EXCEPT !.op = "revert"]
  ELSE [Req("revert", fieldId) EXCEPT
          !.again = (last.op = "revert" /\ last.fieldId = fieldId /\ resp.status = 200)]

\* (variant: an existing snapshot is kept, only a missing one is written)
undoSet_KeepFirst(u, fieldId, prev) ==
  IF fieldId \in DOMAIN u THEN u
  ELSE [k \in (DOMAIN u) \cup {fieldId} |-> IF k = fieldId THEN prev ELSE u[k]]

\* state.undo.set / get / delete on the map
undoSet(u, fieldId, prev) ==
  [k \in (DOMAIN u) \cup {fieldId} |-> IF k = fieldId THEN prev ELSE u[k]]

\* (variant: the lookup never finds a snapshot)
undoHas_Never(u, fieldId) == FALSE

undoHas(u, fieldId) == fieldId \in DOMAIN u

\* (variant: the snapshot stays in the map)
undoDelete_Keep(u, fieldId) == u

undoDelete(u, fieldId) == [k \in (DOMAIN u) \ {fieldId} |-> u[k]]

NoUndo == [k \in {} |-> <<>>]

\* ---------------------------------------------------------------- Init
ProtoInit ==
  /\ page \in {pg \in [Paths -> [present : {TRUE},
                                 kind : UNION {KindsAt(p) : p \in Paths},
                                 value : {<<>>, <<"a">>}]] :
                 \A p \in Paths :
                   /\ pg[p].kind \in KindsAt(p)
                   /\ ~Eligible(pg[p].kind) => pg[p].value = <<>>}
  /\ pageEvents = {}
  /\ fields = <<>>
  /\ undo = NoUndo
  /\ runtime = <<>>
  /\ resp = Ok
  /\ last = Req("start", UnknownId)
  /\ quiet = TRUE

\* ------------------------------------------------- Control Protocol handlers
\* scanAndPersist: state.fields = await scanFieldsOnPage(page)
scanAndPersist(fs, pg) == scanFieldsOnPage(pg)

\* POST /scan_fields: scanAndPersist.  A driver fault (scanFieldsOnPage
\* throws) leaves state.fields as is.  A persist fault (saveRuntimeState
\* throws) comes after the assignment to state.fields: torn tells whether
\* writeFileSync had truncated runtime.json before it threw.
ScanFields(fault) ==
  /\ last' = Req("scan", UnknownId)
  /\ CASE fault = "driver" ->
            /\ resp' = DriverError
            /\ UNCHANGED <<fields, runtime, quiet>>
       [] fault = "persist" ->
            /\ fields' = scanAndPersist(fields, page)
            /\ \E torn \in BOOLEAN : runtime' = IF torn THEN <<>> ELSE runtime
            /\ resp' = PersistError
            /\ UNCHANGED quiet
       [] OTHER ->
            /\ fields' = scanAndPersist(fields, page)
            /\ runtime' = scanAndPersist(fields, page)
            /\ resp' = Ok
            /\ quiet' = TRUE
  /\ pageEvents' = {}
  /\ UNCHANGED <<page, undo>>
  /\ UNCHANGED lifeVars

\* POST /highlight_field
HighlightField(fieldId) ==
  /\ last' = Req("highlight", fieldId)
  /\ LET i == FindField(fields, fieldId) IN
     resp' = IF i = 0 THEN NotFound
             ELSE IF ~page[fields[i].domPath].present THEN DriverError
             ELSE Ok
  /\ pageEvents' = {}
  /\ UNCHANGED <<page, fields, undo, runtime, quiet>>
  /\ UNCHANGED lifeVars

\* (variant: reading a field consumes its undo snapshot)
ReadFieldValue_Consuming(fieldId) ==
  /\ last' = Req("read", fieldId)
  /\ LET i == FindField(fields, fieldId) IN
     /\ resp' = IF i = 0 THEN NotFound
                ELSE IF ~page[fields[i].domPath].present THEN DriverError
                ELSE [status |-> 200, ok |-> TRUE, error |-> "none",
                      value |-> readFieldValue(page, fields[i].domPath)]
     /\ undo' = IF i = 0 THEN undo ELSE undoDelete(undo, fieldId)
  /\ pageEvents' = {}
  /\ UNCHANGED <<page, fields, runtime, quiet>>
  /\ UNCHANGED lifeVars

\* POST /read_field_value
ReadFieldValue(fieldId) ==
  /\ last' = Req("read", fieldId)
  /\ LET i == FindField(fields, fieldId) IN
     resp' = IF i = 0 THEN NotFound
             ELSE IF ~page[fields[i].domPath].present THEN DriverError
             ELSE [status |-> 200, ok |-> TRUE, error |-> "none",
                   value |-> readFieldValue(page, fields[i].domPath)]
  /\ pageEvents' = {}
  /\ UNCHANGED <<page, fields, undo, runtime, quiet>>
  /\ UNCHANGED lifeVars

\* POST /set_field_value
SetFieldValue(fieldId, text) ==
  /\ quiet' = (quiet /\ FindField(fields, fieldId) = 0)
  /\ LET i == FindField(fields, fieldId) IN
     IF i = 0
     THEN /\ resp' = NotFound
          /\ last' = Req("set", fieldId)
          /\ UNCHANGED <<page, undo>>
     ELSE LET field == fields[i] IN
          IF ~ensureFieldExists(page, field.domPath)
          THEN /\ resp' = Gone
               /\ last' = Req("set", fieldId)
               /\ UNCHANGED <<page, undo>>
          ELSE IF ~page[field.domPath].present
          THEN \* readFieldValue throws "Field not found"
               /\ resp' = DriverError
               /\ last' = Req("set", fieldId)
               /\ UNCHANGED <<page, undo>>
          ELSE /\ undo' = undoSet(undo, field.fieldId, readFieldValue(page, field.domPath))
               /\ \E fault \in SetFaults :
                  CASE fault = "driver" ->
                         \* the page call of setFieldValue throws
                         /\ resp' = DriverError
                         /\ last' = Req("set", fieldId)
                         /\ UNCHANGED page
                    [] fault = "late" ->
                         \* ... after its script has assigned node.value
                         /\ resp' = DriverError
                         /\ last' = Req("set", fieldId)
                         /\ page' = setFieldValue(page, field.domPath, text)
                    [] OTHER ->
                         /\ page' = setFieldValue(page, field.domPath, text)
                         /\ resp' = Ok
                         /\ last' = Mutated("set", fieldId, page[field.domPath].value)
  /\ pageEvents' = {}
  /\ UNCHANGED <<fields, runtime>>
  /\ UNCHANGED lifeVars

\* typeIntoField: locator.click(), locator.fill(""), locator.type(text)
typeIntoField(pg, domPath, text) ==
  IF Fillable(pg[domPath].kind)
  THEN [pg EXCEPT ![domPath].value = TypedValue(pg[domPath].kind, text)]
  ELSE pg

\* POST /type_into_field
TypeIntoField(fieldId, text) ==
  /\ quiet' = (quiet /\ FindField(fields, fieldId) = 0)
  /\ LET i == FindField(fields, fieldId) IN
     IF i = 0
     THEN /\ resp' = NotFound
          /\ last' = Req("type", fieldId)
          /\ UNCHANGED <<page, undo>>
          /\ pageEvents' = {}
     ELSE LET field == fields[i] IN
          IF ~page[field.domPath].present
          THEN \* readFieldValue throws "Field not found"
               /\ resp' = DriverError
               /\ last' = Req("type", fieldId)
               /\ UNCHANGED <<page, undo>>
               /\ pageEvents' = {}
          ELSE /\ undo' = undoSet(undo, field.fieldId, readFieldValue(page, field.domPath))
               /\ \E fault \in Faults :
                  IF fault = "driver"
                  THEN \* locator.click() throws
                       /\ resp' = DriverError
                       /\ last' = Req("type", fieldId)
                       /\ UNCHANGED page
                       /\ pageEvents' = {}
                  ELSE /\ pageEvents' = TypeEvents(page[field.domPath].kind, text)
                       /\ page' = typeIntoField(page, field.domPath, text)
                       /\ IF Fillable(page[field.domPath].kind)
                          THEN /\ resp' = Ok
                               /\ last' = Req("type", fieldId)
                          ELSE \* locator.fill throws on this input type
                               /\ resp' = DriverError
                               /\ last' = Req("type", fieldId)
  /\ UNCHANGED <<fields, runtime>>
  /\ UNCHANGED lifeVars

\* (variant: the snapshot is taken out of the map before the write-back)
RevertField_DeleteFirst(fieldId) ==
  /\ last' = Reverting(fieldId)
  /\ LET i == FindField(fields, fieldId) IN
     IF i = 0
     THEN /\ resp' = NotFound
          /\ UNCHANGED <<page, undo>>
     ELSE LET field == fields[i] IN
          IF ~undoHas(undo, field.fieldId)
          THEN /\ resp' = NoUndoAvailable
               /\ UNCHANGED <<page, undo>>
          ELSE /\ undo' = undoDelete(undo, field.fieldId)
               /\ IF ~page[field.domPath].present
                  THEN /\ resp' = DriverError
                       /\ UNCHANGED page
                  ELSE /\ page' = setFieldValue(page, field.domPath, undo[field.fieldId])
                       /\ resp' = Ok
  /\ pageEvents' = {}
  /\ UNCHANGED <<fields, runtime, quiet>>
  /\ UNCHANGED lifeVars

\* POST /revert_field
RevertField(fieldId) ==
  /\ last' = Reverting(fieldId)
  /\ LET i == FindField(fields, fieldId) IN
     IF i = 0
     THEN /\ resp' = NotFound
          /\ UNCHANGED <<page, undo>>
     ELSE LET field == fields[i] IN
          IF ~undoHas(undo, field.fieldId)
          THEN /\ resp' = NoUndoAvailable
               /\ UNCHANGED <<page, undo>>
          ELSE IF ~page[field.domPath].present
          THEN \* setFieldValue throws "Field not found": the snapshot stays
               /\ resp' = DriverError
               /\ UNCHANGED <<page, undo>>
          ELSE \E fault \in SetFaults :
               CASE fault = "driver" ->
                      \* the page call of setFieldValue throws: the snapshot stays
                      /\ resp' = DriverError
                      /\ UNCHANGED <<page, undo>>
                 [] fault = "late" ->
                      \* ... after its script has assigned node.value
                      /\ resp' = DriverError
                      /\ page' = setFieldValue(page, field.domPath, undo[field.fieldId])
                      /\ UNCHANGED undo
                 [] OTHER ->
                      /\ page' = setFieldValue(page, field.domPath, undo[field.fieldId])
                      /\ undo' = undoDelete(undo, field.fieldId)
                      /\ resp' = Ok
  /\ pageEvents' = {}
  /\ UNCHANGED <<fields, runtime, quiet>>
  /\ UNCHANGED lifeVars

\* GET /field/:fieldId
GetField(fieldId) ==
  /\ last' = Req("field", fieldId)
  /\ resp' = IF FindField(fields, fieldId) = 0 THEN NotScanned ELSE Ok
  /\ pageEvents' = {}
  /\ UNCHANGED <<page, fields, undo, runtime, quiet>>
  /\ UNCHANGED lifeVars

\* GET /page_info: getPageInfo evaluates in the page
PageInfo(fault) ==
  /\ last' = Req("page_info", UnknownId)
  /\ resp' = IF fault = "driver" THEN DriverError ELSE Ok
  /\ pageEvents' = {}
  /\ UNCHANGED <<page, fields, undo, runtime, quiet>>
  /\ UNCHANGED lifeVars

\* GET /health
Health ==
  /\ last' = Req("health", UnknownId)
  /\ resp' = Ok
  /\ pageEvents' = {}
  /\ UNCHANGED <<page, fields, undo, runtime, quiet>>
  /\ UNCHANGED lifeVars

\* GET /fields
GetFields ==
  /\ last' = Req("fields", UnknownId)
  /\ resp' = Ok
  /\ pageEvents' = {}
  /\ UNCHANGED <<page, fields, undo, runtime, quiet>>
  /\ UNCHANGED lifeVars

\* any other method and path: 404 "Unknown endpoint."
UnknownEndpoint ==
  /\ last' = Req("unknown", UnknownId)
  /\ resp' = UnknownEndpointError
  /\ pageEvents' = {}
  /\ UNCHANGED <<page, fields, undo, runtime, quiet>>
  /\ UNCHANGED lifeVars

\* the endpoints that read a JSON body
BodyOps == {"highlight", "read", "set", "type", "revert"}

\* a POST to one of them with a body that is not JSON: parseUrlBody rejects,
\* the handler's catch block answers
MalformedBody(op) ==
  /\ op \in BodyOps
  /\ last' = Req("malformed", UnknownId)
  /\ resp' = ParseError
  /\ pageEvents' = {}
  /\ UNCHANGED <<page, fields, undo, runtime, quiet>>
  /\ UNCHANGED lifeVars

\* the fieldId of a body that has none: body.fieldId is undefined
NoFieldId == <<"undefined", "none", "none">>

\* ----------------------------------------------------------- the page, by
\* itself: a form field leaves the DOM, or comes back empty
Volatile == {p \in Paths : \E k \in KindsAt(p) : Eligible(k)}

ElementRemoved(p) ==
  /\ p \in Volatile
  /\ page[p].present
  /\ page' = [page EXCEPT ![p].present = FALSE]
  /\ last' = Req("dom", UnknownId)
  /\ pageEvents' = {}
  /\ UNCHANGED <<fields, undo, runtime, resp, quiet>>
  /\ UNCHANGED lifeVars

ElementAdded(p) ==
  /\ p \in Volatile
  /\ ~page[p].present
  /\ page' = [page EXCEPT ![p].present = TRUE, ![p].value = <<>>]
  /\ last' = Req("dom", UnknownId)
  /\ pageEvents' = {}
  /\ UNCHANGED <<fields, undo, runtime, resp, quiet>>
  /\ UNCHANGED lifeVars

\* the fieldIds clients send: those a scan of some page can return, and one
\* that no scan returns
RequestIds ==
  UNION {{makeFieldId(p, LabelOf(p), k) : k \in {j \in KindsAt(p) : Eligible(j)}} : p \in Paths}
  \cup {UnknownId}

\* ------------------------------------------- Control Protocol properties
InFields(fs, fieldId) == \E i \in 1..Len(fs) : fs[i].fieldId = fieldId

\* the selector the current descriptor set records for fieldId
DomPathOf(fs, fieldId) == fs[CHOOSE i \in 1..Len(fs) : fs[i].fieldId = fieldId].domPath

\* C1: no request of the Control Protocol makes the controller click a submit
\* control, submit a form or navigate: the driver calls of every request
\* trigger none of these in the page.
C1_NoSubmissionTriggered == pageEvents = {}

\* C2: a revert that directly follows a successful set_field_value of the same
\* field is never refused (it is answered ok unless the driver faults), and
\* when it is answered ok the field holds exactly the value it held before
\* the set.
C2_SetThenRevertRestores ==
  (last.op = "revert" /\ last.streak >= 1) =>
    /\ resp \in {Ok, DriverError}
    /\ resp = Ok => page[DomPathOf(fields, last.fieldId)].value = last.before

C2_Witness ==
  /\ last.op = "revert" /\ last.streak = 1 /\ resp = Ok
  /\ last.before = <<>>
  /\ page[DomPathOf(fields, last.fieldId)].value = <<>>

\* C3: after every successful scan the undo map is empty.
C3_ScanClearsUndo == (last.op = "scan" /\ resp = Ok) => DOMAIN undo = {}

\* C4: a revert that directly follows two (or more) successful set_field_value
\* requests in a row on the same field restores the value the field held just
\* before the latest of them, and leaves no snapshot for the field behind.
C4_RevertRestoresBeforeLatestSet ==
  (last.op = "revert" /\ last.streak = 2 /\ resp = Ok) =>
    /\ page[DomPathOf(fields, last.fieldId)].value = last.before
    /\ ~undoHas(undo, last.fieldId)

C4_Witness ==
  /\ last.op = "revert" /\ last.streak = 2 /\ resp = Ok
  /\ last.before = <<"a">>
  /\ page[DomPathOf(fields, last.fieldId)].value = <<"a">>

\* C5: a revert of a field of the current descriptor set, when no set or type
\* request has reached any field since the latest scan, is answered
\* NoUndoAvailable.
C5_RevertWithoutSetRefused ==
  (last.op = "revert" /\ quiet /\ InFields(fields, last.fieldId)) => resp = NoUndoAvailable

\* C6: a set, type or revert request whose fieldId is not in the current
\* descriptor set (none is before the first scan) is answered NotFound and
\* changes neither the page nor the undo map.
C6_UnknownFieldIdNotFound ==
  [][(last'.op \in {"set", "type", "revert"} /\ ~InFields(fields, last'.fieldId)) =>
       (resp' = NotFound /\ page' = page /\ undo' = undo)]_vars

C6_Witness ==
  /\ last.op = "set" /\ resp = NotFound
  /\ Len(fields) > 0
  /\ last.fieldId # UnknownId

\* C7: a set request for a field of the descriptor set whose element is no
\* longer at its recorded selector is answered Gone and changes neither the
\* page nor the undo map.
C7_SetOnVanishedElementGone ==
  [][(/\ last'.op = "set"
      /\ InFields(fields, last'.fieldId)
      /\ ~page[DomPathOf(fields, last'.fieldId)].present) =>
       (resp' = Gone /\ page' = page /\ undo' = undo)]_vars

C7_Witness ==
  /\ last.op = "set" /\ resp = Gone
  /\ undoHas(undo, last.fieldId)

\* the fieldIds of a descriptor list, in order
FieldIds(fs) == [i \in 1..Len(fs) |-> fs[i].fieldId]

\* the pages that hold the same elements as pg, whatever their values
SameStructure(pg) ==
  {q \in [Paths -> [present : BOOLEAN,
                     kind : UNION {KindsAt(p) : p \in Paths},
                     value : {<<>>, <<"a">>, <<"a", "a">>}]] :
     \A p \in Paths : q[p].present = pg[p].present /\ q[p].kind = pg[p].kind}

\* C15: the fieldIds a successful scan returns are those a scan of any page
\* with the same elements returns, whatever values the fields hold and
\* whatever the controller has recorded (descriptor set, undo map, earlier
\* responses): two scans of an unchanged page return identical fieldIds.
C15_FieldIdsDependOnStructureOnly ==
  (last.op = "scan" /\ resp.status = 200) =>
    \A q \in SameStructure(page) : FieldIds(scanFieldsOnPage(q)) = FieldIds(fields)

C15_Witness ==
  /\ last.op = "scan" /\ resp.status = 200
  /\ Len(fields) = 2
  /\ DOMAIN undo # {}
  /\ \E p \in Paths : page[p].present /\ Eligible(page[p].kind) /\ page[p].value # <<>>
  /\ runtime = fields

\* C23: a set_field_value or type_into_field request that is answered with a
\* failure leaves the undo map as it was before the request.
C23_FailedMutationLeavesUndo ==
  [][(last'.op \in {"set", "type"} /\ resp'.status # 200) => undo' = undo]_vars

\* C24: a revert that is answered ok has written the snapshot with
\* setFieldValue (no keystrokes, no page events) and has removed it; a revert
\* of the same field that directly follows it is answered NoUndoAvailable and
\* changes neither the page nor the undo map.
C24_RevertIsNotReversible ==
  /\ [][(last'.op = "revert" /\ resp' = Ok) =>
          /\ page' = setFieldValue(page, DomPathOf(fields, last'.fieldId), undo[last'.fieldId])
          /\ pageEvents' = {}
          /\ ~undoHas(undo', last'.fieldId)]_vars
  /\ [][(last'.op = "revert" /\ last'.again) =>
          (resp' = NoUndoAvailable /\ page' = page /\ undo' = undo)]_vars

C24_Witness ==
  /\ last.op = "revert" /\ last.again
  /\ resp = NoUndoAvailable
  /\ InFields(fields, last.fieldId)
  /\ page[DomPathOf(fields, last.fieldId)].value = <<"a">>

\* C25 (as claimed): a revert of a field of the current descriptor set is
\* answered ok exactly when the undo map holds a snapshot for its fieldId, and
\* NoUndoAvailable exactly when it holds none.
C25_RevertSucceedsIffSnapshot ==
  [][(last'.op = "revert" /\ InFields(fields, last'.fieldId)) =>
       /\ resp' = Ok <=> last'.fieldId \in DOMAIN undo
       /\ resp' = NoUndoAvailable <=> last'.fieldId \notin DOMAIN undo]_vars

\* C25 (amended): a revert of a field of the current descriptor set is
\* answered NoUndoAvailable exactly when the undo map holds no snapshot for
\* its fieldId.  With a snapshot the write is attempted: the answer is ok, or
\* a 500 when the page call throws, and then the snapshot stays.
C25_RevertAttemptedIffSnapshot ==
  [][(last'.op = "revert" /\ InFields(fields, last'.fieldId)) =>
       /\ resp' = NoUndoAvailable <=> last'.fieldId \notin DOMAIN undo
       /\ last'.fieldId \in DOMAIN undo => resp' \in {Ok, DriverError}
       /\ resp' = DriverError => undo' = undo]_vars

C25_Witness ==
  /\ last.op = "revert" /\ resp = DriverError
  /\ InFields(fields, last.fieldId)
  /\ undoHas(undo, last.fieldId)
  /\ ~page[DomPathOf(fields, last.fieldId)].present

\* ------------------------------------------------------ Session Lifecycle
\* Two controller processes started against the same data directory.
Controllers == {"c1", "c2"}

Ports == {"portA", "portB"}

NoDescriptor == [present |-> FALSE, port |-> "none", by |-> "none"]

Alive(c) == pc[c] \notin {"idle", "exited"}

\* the process ends: the OS closes its socket and its browser connection
Exited(c) ==
  /\ pc' = [pc EXCEPT ![c] = "exited"]
  /\ listening' = [listening EXCEPT ![c] = FALSE]
  /\ ctx' = [ctx EXCEPT ![c] = IF @ = "open" THEN "closed" ELSE @]

LifeInit ==
  /\ pc = [c \in Controllers |-> "idle"]
  /\ tui = [c \in Controllers |-> FALSE]
  /\ port = [c \in Controllers |-> "portA"]
  /\ stopped = [c \in Controllers |-> FALSE]
  /\ listening = [c \in Controllers |-> FALSE]
  /\ ctx = [c \in Controllers |-> "none"]
  /\ descriptor = NoDescriptor
  /\ bind = [c \in Controllers |-> "none"]

\* `dalil run [--daemon] [--port n]`: cmdRun up to startRunnerServer's browser
\* launch; ok = FALSE: the driver is unavailable and the command fails
Launch(c, interactive, requestedPort, ok) ==
  /\ pc[c] \in {"idle", "exited"}
  /\ tui' = [tui EXCEPT ![c] = interactive]
  /\ port' = [port EXCEPT ![c] = requestedPort]
  /\ stopped' = [stopped EXCEPT ![c] = FALSE]
  /\ IF ok
     THEN /\ pc' = [pc EXCEPT ![c] = "launched"]
          /\ ctx' = [ctx EXCEPT ![c] = "open"]
     ELSE /\ pc' = [pc EXCEPT ![c] = "exited"]
          /\ ctx' = [ctx EXCEPT ![c] = "none"]
  /\ UNCHANGED <<listening, descriptor>>
  /\ fields' = <<>>
  /\ undo' = NoUndo
  /\ UNCHANGED <<page, pageEvents, runtime, resp, last, quiet>>

Loopback == "127.0.0.1"

\* (variant: the listener is bound to every interface)
ListenHost_AllInterfaces(interactive, listenPort) == "0.0.0.0"

\* the host argument of server.listen, whatever the mode and the port asked for
ListenHost(interactive, listenPort) == Loopback

\* (variant: the descriptor is written before server.listen has succeeded)
Listen_PublishFirst(c) ==
  /\ pc[c] = "launched"
  /\ bind' = [bind EXCEPT ![c] = ListenHost(tui[c], port[c])]
  /\ descriptor' = [present |-> TRUE, port |-> port[c], by |-> c]
  /\ IF \E d \in Controllers \ {c} : listening[d] /\ port[d] = port[c]
     THEN Exited(c)
     ELSE /\ pc' = [pc EXCEPT ![c] = "bound"]
          /\ listening' = [listening EXCEPT ![c] = TRUE]
          /\ UNCHANGED ctx
  /\ UNCHANGED <<tui, port, stopped>>
  /\ UNCHANGED protoVars

\* server.listen(listenPort, "127.0.0.1"): fails when the port is taken
Listen(c) ==
  /\ pc[c] = "launched"
  /\ bind' = [bind EXCEPT ![c] = ListenHost(tui[c], port[c])]
  /\ IF \E d \in Controllers \ {c} : listening[d] /\ port[d] = port[c]
     THEN Exited(c)
     ELSE /\ pc' = [pc EXCEPT ![c] = "bound"]
          /\ listening' = [listening EXCEPT ![c] = TRUE]
          /\ UNCHANGED ctx
  /\ UNCHANGED <<tui, port, stopped, descriptor>>
  /\ UNCHANGED protoVars

\* saveRunnerConnection(dataDir, conn): the file is written over whatever is there
saveRunnerConnection(c) ==
  descriptor' = [present |-> TRUE, port |-> port[c], by |-> c]

Publish(c) ==
  /\ pc[c] = "bound"
  /\ saveRunnerConnection(c)
  /\ pc' = [pc EXCEPT ![c] = "running"]
  /\ UNCHANGED <<tui, port, stopped, listening, ctx>>
  /\ UNCHANGED protoVars

\* (variant: stop removes the descriptor file first and tears down afterwards)
stop_DescriptorFirst(c) ==
  /\ stopped' = [stopped EXCEPT ![c] = TRUE]
  /\ descriptor' = NoDescriptor
  /\ pc' = [pc EXCEPT ![c] = "closing"]
  /\ UNCHANGED <<ctx, listening>>

\* stop(), first call: sets the flag and calls runner.close(), whose
\* server.close() stops the listener from accepting at once
stop(c) ==
  /\ stopped' = [stopped EXCEPT ![c] = TRUE]
  /\ listening' = [listening EXCEPT ![c] = FALSE]
  /\ pc' = [pc EXCEPT ![c] = "closing"]
  /\ UNCHANGED <<ctx, descriptor>>

\* process.on("SIGINT" / "SIGTERM"): registered in daemon mode only, once
\* cmdRun has published
HandlersInstalled(c) ==
  ~tui[c] /\ pc[c] \in {"running", "closing", "releasing", "removing"}

\* (variant: stop has no `stopped` flag, every signal starts the teardown)
Signal_NoFlag(c) ==
  /\ Alive(c)
  /\ pc[c] \notin {"removing"}
  /\ IF HandlersInstalled(c)
     THEN stop(c)
     ELSE /\ Exited(c)
          /\ UNCHANGED <<stopped, descriptor>>
  /\ UNCHANGED <<tui, port>>
  /\ UNCHANGED protoVars

\* SIGINT / SIGTERM.  The handler calls stop(): with `stopped` unset it runs
\* the teardown; with `stopped` set it returns at once and process.exit(0)
\* follows.  Without a handler the signal ends the process.
Signal(c) ==
  /\ Alive(c)
  /\ pc[c] \notin {"removing"}
  /\ IF HandlersInstalled(c) /\ ~stopped[c]
     THEN stop(c)
     ELSE /\ Exited(c)
          /\ UNCHANGED <<stopped, descriptor>>
  /\ UNCHANGED <<tui, port>>
  /\ UNCHANGED protoVars

\* runInteractiveTui returns (quit confirmed) or throws: `finally { await stop() }`
TuiExit(c) ==
  /\ tui[c]
  /\ pc[c] = "running"
  /\ stop(c)
  /\ UNCHANGED <<tui, port>>
  /\ UNCHANGED protoVars

\* server.close's callback: runner.close goes on to context.close() / browser.close()
ListenerClosed(c) ==
  /\ pc[c] = "closing"
  /\ pc' = [pc EXCEPT ![c] = "releasing"]
  /\ UNCHANGED <<tui, port, stopped, listening, ctx, descriptor>>
  /\ UNCHANGED protoVars

\* context.close() / browser.close() settles; ok = FALSE: it throws
ContextReleased(c, ok) ==
  /\ pc[c] = "releasing"
  /\ ctx' = [ctx EXCEPT ![c] = IF ok THEN "closed" ELSE "failed"]
  /\ pc' = [pc EXCEPT ![c] = "removing"]
  /\ UNCHANGED <<tui, port, stopped, listening, descriptor>>
  /\ UNCHANGED protoVars

\* stop()'s finally block: existsSync / rmSync of the descriptor file; then
\* the process ends (process.exit(0), the end of cmdRun, or the rejection of stop)
RemoveDescriptor(c) ==
  /\ pc[c] = "removing"
  /\ descriptor' = NoDescriptor
  /\ Exited(c)
  /\ UNCHANGED <<tui, port, stopped>>
  /\ UNCHANGED protoVars

\* an unexpected fault ends the process (an uncaught exception, a kill)
Fault(c) ==
  /\ Alive(c)
  /\ Exited(c)
  /\ UNCHANGED <<tui, port, stopped, descriptor>>
  /\ UNCHANGED protoVars

\* ------------------------------------------- Session Lifecycle properties
\* the process has published its descriptor and has not ended
Published(c) == pc[c] \in {"running", "closing", "releasing", "removing"}

\* C8 (as claimed): whenever the descriptor file is present and was published
\* by a controller that has not ended, that controller's listener accepts
\* connections.
C8_DescriptorImpliesListening ==
  \A c \in Controllers :
    (Published(c) /\ descriptor.present /\ descriptor.by = c) => listening[c]

\* C8 (amended): the descriptor is removed last.  A controller that has
\* published and has not begun to stop is listening, and whenever the
\* descriptor file is removed, the controller removing it has already stopped
\* listening and its release of the browser context has finished or failed.
C8_DescriptorRemovedLast ==
  /\ [](\A c \in Controllers : pc[c] = "running" => listening[c])
  /\ [][(descriptor.present /\ ~descriptor'.present) =>
          \E c \in Controllers :
            /\ pc[c] # "exited" /\ pc'[c] = "exited"
            /\ stopped[c]
            /\ ~listening[c]
            /\ ctx[c] \in {"closed", "failed"}]_vars

C8_Witness ==
  \E c \in Controllers :
    /\ pc[c] = "exited" /\ stopped[c] /\ ctx[c] = "failed"
    /\ ~descriptor.present

\* C9: no descriptor outlives its controller: once a controller process has
\* ended, the descriptor file it published is gone.
C9_NoDescriptorOutlivesController ==
  \A c \in Controllers :
    pc[c] = "exited" => ~(descriptor.present /\ descriptor.by = c)

\* C10: the descriptor of a controller that is running, and stays running, is
\* never removed.
C10_RunningControllerKeepsDescriptor ==
  [][\A d \in Controllers :
       (descriptor.present /\ descriptor.by = d /\ pc[d] = "running" /\ pc'[d] = "running")
         => descriptor'.present]_vars

\* the teardown of stop, in the order it runs
Teardown == <<"closing", "releasing", "removing", "exited">>

TeardownStep(c) == CHOOSE i \in 1..Len(Teardown) : Teardown[i] = pc[c]

\* C39: stop's body runs only with the flag unset, from the running state;
\* once it has run, the process moves through listener close, browser
\* release and descriptor removal forwards only, one step at a time, or
\* ends: no trigger starts the teardown again or repeats a step of it, the
\* browser is released in the release step only and the descriptor is
\* removed in the removal step only.
C39_StopRunsTeardownOnce ==
  [][\A c \in Controllers :
       /\ (~stopped[c] /\ stopped'[c]) => (pc[c] = "running" /\ pc'[c] = "closing")
       /\ (stopped[c] /\ pc[c] \in {"closing", "releasing", "removing"}) =>
            /\ stopped'[c]
            /\ pc'[c] \in {pc[c], Teardown[TeardownStep(c) + 1], "exited"}
            /\ (ctx'[c] # ctx[c] /\ pc'[c] # "exited") => pc[c] = "releasing"
            /\ (pc'[c] # pc[c] /\ pc[c] # "removing") => descriptor' = descriptor]_vars

\* a second signal found the teardown of the first in progress: the daemon
\* has ended with the flag set and the removal step never ran
C39_Witness ==
  /\ pc["c1"] = "exited" /\ stopped["c1"] /\ ~tui["c1"]
  /\ ctx["c1"] = "closed"
  /\ descriptor.present /\ descriptor.by = "c1"

\* the step is a start of c that fails: cmdRun ends before startRunnerServer
\* has returned (the driver is unavailable, or server.listen reports an error)
StartFails(c) ==
  /\ pc'[c] = "exited"
  /\ \/ pc[c] = "launched"
     \/ /\ pc[c] \in {"idle", "exited"}
        /\ <<pc[c], tui[c], port[c], stopped[c], ctx[c]>> # <<pc'[c], tui'[c], port'[c], stopped'[c], ctx'[c]>>

\* C38: a start that fails writes no descriptor and leaves the descriptor
\* file as it is, whether it is absent or was published by another process.
C38_FailedStartLeavesDescriptor ==
  [][\A c \in Controllers : StartFails(c) => descriptor' = descriptor]_vars

\* c2's latest start failed at the driver while c1 runs behind its descriptor
C38_Witness ==
  /\ pc["c2"] = "exited" /\ ctx["c2"] = "none"
  /\ pc["c1"] = "running" /\ listening["c1"]
  /\ descriptor.present /\ descriptor.by = "c1"

\* C28: once a controller has invoked stop, the descriptor it published is
\* gone by the time its process has ended, whether the listener close and the
\* context release succeeded or threw.
C28_StopAlwaysRemovesDescriptor ==
  \A c \in Controllers :
    (stopped[c] /\ pc[c] = "exited") => ~(descriptor.present /\ descriptor.by = c)

\* ----------------------------------------------------------- the clients
\* exit codes of the CLI
EXIT_OK == 0
EXIT_ENV == 3
EXIT_INSERTION_BLOCKED == 5

\* The command in progress.  cmd: "apply" (cmdApply), "tui" (the TUI's `a` key
\* and applyDraft), "fields" (cmdFields list / the TUI's scan), "revert".
\* step: where the command is.  sent / served: requests it has sent and
\* requests a controller has answered.  sets / types: its set_field_value and
\* type_into_field attempts, setFailed / typeFailed: whether they threw.
\* exit: the code of the CliError it ended with (EXIT_OK: it completed; while
\* it runs, EXIT_OK too).  thrown: what the latest runnerRequest threw.
\* history: history entries it has saved.  asked / answer: the field of the
\* TUI's "Apply to <label>?" question and the line the user typed.
\* target: where the latest fetch went.  signal: the abort signal / timeout
\* that fetch was given.  cold: when the command started, no running
\* controller stood behind the descriptor file.  orig: the value the field
\* of an apply held when its set_field_value request went out (history
\* variable).
NoClient ==
  [cmd |-> "none", step |-> "idle", fieldId |-> UnknownId, text |-> <<>>,
   sent |-> 0, served |-> 0, sets |-> 0, types |-> 0,
   setFailed |-> FALSE, typeFailed |-> FALSE,
   exit |-> EXIT_OK, thrown |-> "none", history |-> 0,
   asked |-> UnknownId, answer |-> "none",
   target |-> [host |-> "none", port |-> "none"], signal |-> "none", cold |-> FALSE,
   orig |-> <<>>]

ClientIdle == client = NoClient

\* the descriptor file is there but the process that wrote it is gone
Stale == descriptor.present /\ ~Published(descriptor.by)

Unbacked == ~descriptor.present \/ Stale

\* runnerRequest up to the fetch: "inactive" when loadRunnerConnection gives no
\* port, "refused" when nothing accepts at 127.0.0.1:port, else "connected"
Connect ==
  IF ~descriptor.present THEN "inactive"
  ELSE IF \E c \in Controllers : listening[c] /\ port[c] = descriptor.port
       THEN "connected"
       ELSE "refused"

\* runnerRequest after the fetch: `!res.ok || !payload.ok` throws
Raises(r) == ~(r.status \in 200..299) \/ ~r.ok

\* the request goes out: fetch(url, init) with url = http://127.0.0.1:<port>
\* and the caller's init (method, headers, body; no signal)
Sent(cl) ==
  [cl EXCEPT !.sent = @ + 1,
             !.target = [host |-> Loopback, port |-> descriptor.port],
             !.signal = "none"]

\* runnerRequest throws: cl.thrown tells why
Threw(cl, why) == [cl EXCEPT !.thrown = why]

\* what runnerRequest does of a request that did not connect
NotConnected(cl) == IF Connect = "inactive" THEN Threw(cl, "inactive") ELSE Threw(Sent(cl), "refused")

\* ... and of one that was answered with r
Answered(cl, r) ==
  LET c2 == [Sent(cl) EXCEPT !.served = @ + 1] IN
  IF Raises(r) THEN Threw(c2, "response") ELSE Threw(c2, "none")

\* the command ends with this exit code
Ended(cl, code) == [cl EXCEPT !.step = "done", !.exit = code]

Free == client.step \in {"idle", "done"}

Begin(cmd, step, fieldId, text) ==
  [NoClient EXCEPT !.cmd = cmd, !.step = step, !.fieldId = fieldId, !.text = text,
                   !.cold = Unbacked]

\* `dalil apply <fieldId> --text <text>`
StartApply(fieldId, text) ==
  /\ Free
  /\ client' = Begin("apply", "field", fieldId, text)
  /\ UNCHANGED <<protoVars, lifeVars, bind, domVars, auxVars>>

\* cmdApply line 56: GET /field/<fieldId>
ApplyGetField ==
  /\ client.step = "field"
  /\ IF Connect # "connected"
     THEN /\ client' = Ended(NotConnected(client), EXIT_ENV)
          /\ UNCHANGED <<protoVars, lifeVars>>
     ELSE /\ GetField(client.fieldId)
          /\ client' = IF Raises(resp')
                       THEN Ended(Answered(client, resp'), EXIT_ENV)
                       ELSE [Answered(client, resp') EXCEPT !.step = "set"]
  /\ UNCHANGED <<bind, domVars, auxVars>>

\* (variant: a failed programmatic attempt is tried once more before typing)
AfterSet_Retry(cl, failed) ==
  IF failed
  THEN [cl EXCEPT !.setFailed = TRUE, !.step = IF cl.sets < 2 THEN "set" ELSE "type"]
  ELSE [cl EXCEPT !.step = "page_info"]

\* try { set_field_value } catch { type_into_field ... }
AfterSet(cl, failed) ==
  IF failed
  THEN [cl EXCEPT !.setFailed = TRUE, !.step = "type"]
  ELSE [cl EXCEPT !.step = "page_info"]

\* cmdApply / applyDraft: POST /set_field_value
ApplySet ==
  /\ client.step = "set"
  /\ LET cl == [client EXCEPT !.sets = @ + 1,
                              !.orig = IF InFields(fields, client.fieldId)
                                       THEN page[DomPathOf(fields, client.fieldId)].value
                                       ELSE <<>>] IN
     IF Connect # "connected"
     THEN /\ client' = AfterSet(NotConnected(cl), TRUE)
          /\ UNCHANGED <<protoVars, lifeVars>>
     ELSE /\ SetFieldValue(client.fieldId, client.text)
          /\ client' = AfterSet(Answered(cl, resp'), Raises(resp'))
  /\ UNCHANGED <<bind, domVars, auxVars>>

\* catch { throw InsertionBlocked }
AfterType(cl, failed) ==
  IF failed
  THEN Ended([cl EXCEPT !.typeFailed = TRUE], EXIT_INSERTION_BLOCKED)
  ELSE [cl EXCEPT !.step = "page_info"]

\* cmdApply / applyDraft: POST /type_into_field, the fallback
ApplyType ==
  /\ client.step = "type"
  /\ LET cl == [client EXCEPT !.types = @ + 1] IN
     IF Connect # "connected"
     THEN /\ client' = AfterType(NotConnected(cl), TRUE)
          /\ UNCHANGED <<protoVars, lifeVars>>
     ELSE /\ TypeIntoField(client.fieldId, client.text)
          /\ client' = AfterType(Answered(cl, resp'), Raises(resp'))
  /\ UNCHANGED <<bind, domVars, auxVars>>

\* cmdApply / applyDraft: GET /page_info
ApplyPageInfo ==
  /\ client.step = "page_info"
  /\ IF Connect # "connected"
     THEN /\ client' = Ended(NotConnected(client), EXIT_ENV)
          /\ UNCHANGED <<protoVars, lifeVars>>
     ELSE /\ \E fault \in Faults : PageInfo(fault)
          /\ client' = IF Raises(resp')
                       THEN Ended(Answered(client, resp'), EXIT_ENV)
                       ELSE [Answered(client, resp') EXCEPT !.step = "history"]
  /\ UNCHANGED <<bind, domVars, auxVars>>

\* cmdApply / applyDraft: history.entries.unshift(...); saveHistory
ApplySaveHistory ==
  /\ client.step = "history"
  /\ client' = Ended([client EXCEPT !.history = @ + 1], EXIT_OK)
  /\ UNCHANGED <<protoVars, lifeVars, bind, domVars, auxVars>>

\* `dalil fields list`, the TUI's scan: POST /scan_fields
ClientScan ==
  /\ Free
  /\ LET cl == Begin("fields", "scan", UnknownId, <<>>) IN
     IF Connect # "connected"
     THEN /\ client' = Ended(NotConnected(cl), EXIT_ENV)
          /\ UNCHANGED <<protoVars, lifeVars>>
     ELSE /\ \E fault \in ScanFaults : ScanFields(fault)
          /\ client' = Ended(Answered(cl, resp'), IF Raises(resp') THEN EXIT_ENV ELSE EXIT_OK)
  /\ UNCHANGED <<bind, domVars, auxVars>>

\* `dalil revert <fieldId>`, the TUI's `u` key: POST /revert_field
ClientRevert(fieldId) ==
  /\ Free
  /\ LET cl == Begin("revert", "revert", fieldId, <<>>) IN
     IF Connect # "connected"
     THEN /\ client' = Ended(NotConnected(cl), EXIT_ENV)
          /\ UNCHANGED <<protoVars, lifeVars>>
     ELSE /\ RevertField(fieldId)
          /\ client' = Ended(Answered(cl, resp'), IF Raises(resp') THEN EXIT_ENV ELSE EXIT_OK)
  /\ UNCHANGED <<bind, domVars, auxVars>>

\* `dalil fields list` when the page script of the scan never returns: the
\* controller has accepted the connection and sends no response
ClientScanHangs ==
  /\ Free
  /\ Connect = "connected"
  /\ client' = [Sent(Begin("fields", "scan", UnknownId, <<>>)) EXCEPT !.step = "waiting"]
  /\ UNCHANGED <<protoVars, lifeVars, bind, domVars, auxVars>>

\* ------------------------------------------------------- the TUI's apply
\* what the user types at a (y/N) prompt
Answers == {"", "y", "YES", "n"}

\* promptLine's trim() and confirm's toLowerCase()
ToLowerCase(raw) ==
  CASE raw = "Y" -> "y"
    [] raw = "YES" -> "yes"
    [] OTHER -> raw

\* (variant: an empty answer counts as yes)
confirm_DefaultYes(raw, defaultNo) ==
  IF ToLowerCase(raw) = "" THEN TRUE ELSE ToLowerCase(raw) \in {"y", "yes"}

\* confirm(question, defaultNo)
confirm(raw, defaultNo) ==
  IF ToLowerCase(raw) = "" THEN ~defaultNo ELSE ToLowerCase(raw) \in {"y", "yes"}

\* the `a` key on the selected field with the current draft: without a draft
\* "No draft to apply.", else the question "Apply to <label>?"
TuiPressA(fieldId, text) ==
  /\ Free
  /\ client' = IF text = <<>>
               THEN Ended(Begin("tui", "a", fieldId, text), EXIT_OK)
               ELSE [Begin("tui", "confirm", fieldId, text) EXCEPT !.asked = fieldId]
  /\ UNCHANGED <<protoVars, lifeVars, bind, domVars, auxVars>>

\* the user's answer: "Apply cancelled." unless confirm says yes, then applyDraft
TuiAnswer(raw) ==
  /\ client.step = "confirm"
  /\ client' = IF confirm(raw, TRUE)
               THEN [client EXCEPT !.answer = raw, !.step = "set"]
               ELSE Ended([client EXCEPT !.answer = raw], EXIT_OK)
  /\ UNCHANGED <<protoVars, lifeVars, bind, domVars, auxVars>>

\* ------------------------------------------------------ client properties
\* the step is a runnerRequest call of the command in progress
IsRequest ==
  /\ client' # client
  /\ \/ client.step \in {"field", "set", "type", "page_info"}
     \/ Free /\ client'.cmd \in {"fields", "revert"}

\* C11: while the descriptor file is absent, or present but left behind by a
\* process that is gone, every request of a client throws the connection
\* error ("inactive" or "refused"), no controller answers it, and it changes
\* nothing of the controller's state or of the page.
C11_UnbackedDescriptorFailsRequests ==
  [][(Unbacked /\ IsRequest) =>
       /\ client'.thrown \in {"inactive", "refused"}
       /\ client'.served = 0
       /\ UNCHANGED protoVars]_vars

\* a response as sendJson builds it
WellFormed(r) ==
  /\ r.ok \in BOOLEAN
  /\ r.ok <=> r.status = 200
  /\ ~r.ok => r.error # "none"

\* C12: the latest response is well formed (ok exactly with status 200, a
\* reason with every failure), and the request it answered made
\* runnerRequest throw exactly when it is not a success.
C12_ResponsesCarrySuccessFlag ==
  /\ WellFormed(resp)
  /\ (client.served > 0 /\ client.thrown \in {"none", "response"}) =>
       (client.thrown = "response" <=> (resp.status # 200 \/ ~resp.ok))

C12_Witness ==
  /\ resp = Gone
  /\ client.cmd = "apply" /\ client.served = 2 /\ client.thrown = "response"
  /\ client.setFailed

Applying == client.cmd \in {"apply", "tui"}

\* C13: an apply makes at most one set_field_value and at most one
\* type_into_field attempt, the second only after the first failed, and it
\* ends with EXIT_INSERTION_BLOCKED exactly when both failed.
C13_OneAttemptPerChannel ==
  Applying =>
    /\ client.sets <= 1
    /\ client.types <= 1
    /\ client.types = 1 => (client.sets = 1 /\ client.setFailed)
    /\ client.typeFailed => client.step = "done"
    /\ client.step = "done" =>
         (client.exit = EXIT_INSERTION_BLOCKED <=> (client.setFailed /\ client.typeFailed))

C13_Witness ==
  /\ client.cmd = "apply" /\ client.step = "done"
  /\ client.exit = EXIT_INSERTION_BLOCKED
  /\ client.sets = 1 /\ client.types = 1 /\ client.served = 3
  /\ client.history = 0

\* C14: when an apply has got past its set / type attempts (the attempt was
\* answered ok and the page has not changed since), the field's value is the
\* text it asked for.
C14_AppliedValueIsRequestedText ==
  (/\ Applying /\ client.step = "page_info"
   /\ last.op \in {"set", "type"} /\ last.fieldId = client.fieldId)
  => page[DomPathOf(fields, client.fieldId)].value = client.text

\* C18: a client that waits for a response has given its request a bounded
\* wait (an abort signal or timeout).
C18_RequestsCarryBoundedWait == client.step = "waiting" => client.signal # "none"

\* C19: every listener is bound to the loopback address, and every request
\* goes to the loopback address at the port read from the descriptor file.
C19_LoopbackOnly ==
  /\ [](\A c \in Controllers : listening[c] => bind[c] = Loopback)
  /\ [][client'.sent > client.sent =>
          client'.target = [host |-> Loopback, port |-> descriptor.port]]_vars

C19_Witness ==
  /\ \E c \in Controllers : listening[c] /\ tui[c] /\ port[c] = "portB" /\ bind[c] = Loopback
  /\ client.served > 0
  /\ client.target = [host |-> Loopback, port |-> "portB"]

SaidYes(raw) == ToLowerCase(raw) \in {"y", "yes"}

\* C20: in the TUI a set_field_value or type_into_field request is made only
\* after the user answered yes to the "Apply to <label>?" question, it targets
\* the field the question named, and one answer stands for at most one
\* request of each kind.
C20_TuiMutatesOnlyAfterYes ==
  (client.cmd = "tui" /\ (client.sets + client.types > 0 \/ client.step \in {"set", "type"})) =>
    /\ SaidYes(client.answer)
    /\ client.fieldId = client.asked
    /\ client.sets <= 1 /\ client.types <= 1
    /\ (client.served > 0 /\ last.op \in {"set", "type"}) => last.fieldId = client.asked

C20_Witness ==
  /\ client.cmd = "tui" /\ client.answer = "YES"
  /\ client.sets = 1 /\ client.types = 0 /\ client.step = "done" /\ client.history = 1
  /\ last.op = "page_info"


\* the apply's set_field_value or its type_into_field was answered ok
Inserted ==
  \/ client.sets = 1 /\ ~client.setFailed
  \/ client.types = 1 /\ ~client.typeFailed

\* C34: an apply that has ended has saved exactly one history entry when one
\* of its two insertion requests succeeded, and none otherwise.
C34_HistoryEntryIffInserted ==
  (Applying /\ client.step = "done") =>
    /\ client.history <= 1
    /\ client.history = 1 <=> Inserted

\* C35: when the type_into_field fallback of an apply succeeds directly after
\* its failed set_field_value, the undo snapshot of the field (what a revert
\* writes back) is the value the field held before the set was attempted.
C35_FallbackKeepsValueBeforeApply ==
  [][(/\ Applying /\ client.step = "type"
      /\ last.op = "set" /\ last.fieldId = client.fieldId
      /\ client'.step = "page_info") =>
        (client.fieldId \in DOMAIN undo' /\ undo'[client.fieldId] = client.orig)]_vars

\* ------------------------------------------------- the scan's view of a DOM
\* The document: <body> holds two <div> parents, each holding form elements in
\* sibling order.  An element is [node, id, label]: node names the element
\* (n1, n2 are <input type="text">, n3 is a <textarea>), id is its id
\* attribute ("" when it has none), label its aria-label.  labelFor tells
\* whether the document holds a <label for="e">.
Nodes == {"n1", "n2", "n3"}

Parents == {1, 2}

ElementIds == {"", "e"}

Labels == {"name", "intro"}

\* the id attributes and labels an element is given: the textarea has no id
\* and keeps its label
IdsOf(n) == IF n = "n3" THEN {""} ELSE ElementIds

LabelsOf(n) == IF n = "n3" THEN {"intro"} ELSE Labels

TagOf(n) == IF n = "n3" THEN "textarea" ELSE "input"

TypeOf(n) == IF n = "n3" THEN "textarea" ELSE "input:text"

NthOfType == <<":nth-of-type(1)", ":nth-of-type(2)", ":nth-of-type(3)">>

\* where the elements are: the set of <<parent, index>> places of the document
Places(d) == {<<k, i>> \in Parents \X (1..Cardinality(Nodes)) : i <= Len(d.kids[k])}

PlaceOf(d, n) == CHOOSE pl \in Places(d) : d.kids[pl[1]][pl[2]].node = n

InDom(d, n) == \E pl \in Places(d) : d.kids[pl[1]][pl[2]].node = n

\* (variant: the selector keeps only the element's own part, not its parent's)
cssPath_OwnPartOnly(d, k, i) ==
  LET el == d.kids[k][i]
      tag == TagOf(el.node)
      same == {j \in 1..Len(d.kids[k]) : TagOf(d.kids[k][j].node) = tag}
  IN  IF el.id # "" THEN <<"", tag, "#e">>
      ELSE <<"", tag,
             IF Cardinality(same) > 1 THEN NthOfType[Cardinality({j \in same : j <= i})] ELSE "">>

\* cssPath(el): from the element up to <body>, one part per ancestor, stopping
\* at the first element that has an id.  The result is <<parent part, tag,
\* suffix>>: "tag#id" alone for an element with an id, otherwise
\* "div:nth-of-type(k) > tag" with ":nth-of-type(idx)" when the parent holds
\* more than one child of that tag.
cssPath(d, k, i) ==
  LET el == d.kids[k][i]
      tag == TagOf(el.node)
      same == {j \in 1..Len(d.kids[k]) : TagOf(d.kids[k][j].node) = tag}
  IN  IF el.id # "" THEN <<"", tag, "#e">>
      ELSE <<"div" \o NthOfType[k], tag,
             IF Cardinality(same) > 1 THEN NthOfType[Cardinality({j \in same : j <= i})] ELSE "">>

\* readLabel(el): the text of label[for=id] when there is one, else the
\* element's own label
readLabel(d, el) == IF el.id # "" /\ d.labelFor THEN "E-mail" ELSE el.label

\* one descriptor of the scan (node is carried along to tell which element it describes)
DomDescriptor(d, k, i) ==
  LET el == d.kids[k][i] IN
  [node |-> el.node,
   fieldId |-> makeFieldId(cssPath(d, k, i), readLabel(d, el), TypeOf(el.node)),
   domPath |-> cssPath(d, k, i),
   label |-> readLabel(d, el)]

\* nodes.map(...) over querySelectorAll's document order
DomScan(d) ==
  [i \in 1..Len(d.kids[1]) |-> DomDescriptor(d, 1, i)]
  \o [i \in 1..Len(d.kids[2]) |-> DomDescriptor(d, 2, i)]

\* the latest change of the document: what happened to which element, from
\* which parent to which (0: not in the document), and whether a scan has
\* run since.  "start": no scan has run yet; "none": the latest two scans saw
\* the same document.
Change(kind, n, from, to) ==
  [kind |-> kind, node |-> n, from |-> from, to |-> to, scanned |-> FALSE]

NoChange == Change("none", "none", 0, 0)

\* the documents the other specifications are not concerned with
DomIdle ==
  /\ dom = [kids |-> [k \in Parents |-> <<>>], labelFor |-> FALSE]
  /\ prevScan = <<>>
  /\ curScan = <<>>
  /\ change = NoChange

DomInit ==
  /\ \E i1 \in IdsOf("n1"), i2 \in IdsOf("n2"), lf \in BOOLEAN :
       dom = [kids |-> [k \in Parents |->
                          IF k = 1
                          THEN << [node |-> "n1", id |-> i1, label |-> "name"],
                                  [node |-> "n2", id |-> i2, label |-> "name"] >>
                          ELSE << [node |-> "n3", id |-> "", label |-> "intro"] >>],
              labelFor |-> lf]
  /\ prevScan = <<>>
  /\ curScan = <<>>
  /\ change = Change("start", "none", 0, 0)

\* POST /scan_fields, as far as the descriptors go
ScanDom ==
  /\ prevScan' = curScan
  /\ curScan' = DomScan(dom)
  /\ change' = IF change.kind # "none" /\ ~change.scanned
               THEN [change EXCEPT !.scanned = TRUE]
               ELSE NoChange
  /\ UNCHANGED dom

\* sequence helpers
Without(sq, i) == [j \in 1..(Len(sq) - 1) |-> IF j < i THEN sq[j] ELSE sq[j + 1]]

With(sq, i, e) ==
  [j \in 1..(Len(sq) + 1) |-> IF j < i THEN sq[j] ELSE IF j = i THEN e ELSE sq[j - 1]]

\* The page changes between two scans (one change at a time, so that the next
\* scan shows its effect): an element is taken out, put in, moved, relabelled.
Settled == change.kind = "none" \/ change.scanned

RemoveField(n) ==
  /\ Settled
  /\ InDom(dom, n)
  /\ LET pl == PlaceOf(dom, n) IN
     dom' = [dom EXCEPT !.kids[pl[1]] = Without(@, pl[2])]
  /\ change' = Change("remove", n, PlaceOf(dom, n)[1], 0)
  /\ UNCHANGED <<prevScan, curScan>>

InsertField(n, k, i, id, label) ==
  /\ Settled
  /\ ~InDom(dom, n)
  /\ id \in IdsOf(n)
  /\ label \in LabelsOf(n)
  /\ i <= Len(dom.kids[k]) + 1
  /\ dom' = [dom EXCEPT !.kids[k] = With(@, i, [node |-> n, id |-> id, label |-> label])]
  /\ change' = Change("insert", n, 0, k)
  /\ UNCHANGED <<prevScan, curScan>>

MoveField(n, k, i) ==
  /\ Settled
  /\ InDom(dom, n)
  /\ LET pl == PlaceOf(dom, n)
         el == dom.kids[pl[1]][pl[2]]
         out == [dom EXCEPT !.kids[pl[1]] = Without(@, pl[2])]
     IN  /\ <<k, i>> # pl
         /\ i <= Len(out.kids[k]) + 1
         /\ dom' = [out EXCEPT !.kids[k] = With(@, i, el)]
  /\ change' = Change("move", n, PlaceOf(dom, n)[1], k)
  /\ UNCHANGED <<prevScan, curScan>>

RelabelField(n, label) ==
  /\ Settled
  /\ InDom(dom, n)
  /\ label \in LabelsOf(n)
  /\ LET pl == PlaceOf(dom, n) IN
     /\ dom.kids[pl[1]][pl[2]].label # label
     /\ dom' = [dom EXCEPT !.kids[pl[1]][pl[2]].label = label]
  /\ change' = Change("label", n, PlaceOf(dom, n)[1], PlaceOf(dom, n)[1])
  /\ UNCHANGED <<prevScan, curScan>>

\* ------------------------------------------------ Field Registry properties
Has(scan, n) == \E i \in 1..Len(scan) : scan[i].node = n

EntryOf(scan, n) == scan[CHOOSE i \in 1..Len(scan) : scan[i].node = n]

HasIdAttribute(d, n) == d.kids[PlaceOf(d, n)[1]][PlaceOf(d, n)[2]].id # ""

\* the latest two scans ran before and after one change of the document
Rescanned == change.scanned /\ change.kind # "start"

C17_FieldIdsUniqueInScan ==
  \A i, j \in 1..Len(curScan) : i # j => curScan[i].fieldId # curScan[j].fieldId

\* the requests that name a field
FieldOps == {"field", "highlight", "read", "set", "type", "revert"}

\* C26: the descriptor set is empty before the first scan, changes only by a
\* successful scan, is then exactly the result of that scan (nothing of the
\* previous set is kept), and every request that names a fieldId not in it is
\* answered NotFound and changes neither the page nor the undo map.
C26_RegistryIsLatestScan ==
  /\ fields = <<>>
  /\ [][fields' # fields => (last'.op = "scan" /\ resp' = Ok)]_vars
  /\ [][(last'.op = "scan" /\ resp' = Ok) => fields' = scanFieldsOnPage(page)]_vars
  /\ [][(last'.op \in FieldOps /\ ~InFields(fields, last'.fieldId)) =>
          (resp' \in {NotFound, NotScanned} /\ page' = page /\ undo' = undo)]_vars

C36_FailedRevertKeepsSnapshot ==
  /\ [][(last'.op = "revert" /\ resp' = DriverError) =>
          (undo' = undo /\ last'.fieldId \in DOMAIN undo')]_vars
  /\ [][(/\ last'.op = "revert" /\ resp' # DriverError
         /\ InFields(fields, last'.fieldId) /\ last'.fieldId \in DOMAIN undo) =>
          /\ resp' = Ok
          /\ page' = setFieldValue(page, DomPathOf(fields, last'.fieldId), undo[last'.fieldId])]_vars

C36_Witness ==
  /\ last.op = "revert" /\ resp = DriverError
  /\ InFields(fields, last.fieldId) /\ last.fieldId \in DOMAIN undo
  /\ undo[last.fieldId] = <<"a">>
  /\ ~page[DomPathOf(fields, last.fieldId)].present

\* C31: the persisted RuntimeSnapshot equals the descriptor set the controller
\* holds in memory, after any sequence of scans and failed scans.
C31_SnapshotIsDescriptorSet == runtime = fields

\* the endpoints that are specified to change nothing
ReadOnlyOps == {"health", "fields", "field", "page_info", "highlight", "read"}

\* C32: health, list fields, get field, page info, highlight and read leave
\* the descriptor set, the undo map and the page (every field's value)
\* unchanged whether they succeed or fail, and the same request repeated is
\* answered as before unless the driver failed in one of the two.
C32_ReadOnlyOpsChangeNothing ==
  /\ [][last'.op \in ReadOnlyOps =>
          (fields' = fields /\ undo' = undo /\ page' = page /\ runtime' = runtime)]_vars
  /\ [][(last'.op \in ReadOnlyOps /\ last' = last /\ resp # DriverError /\ resp' # DriverError) =>
          resp' = resp]_vars

C32_Witness ==
  /\ last.op = "read" /\ resp = DriverError
  /\ InFields(fields, last.fieldId) /\ last.fieldId \in DOMAIN undo
  /\ ~page[DomPathOf(fields, last.fieldId)].present

\* C37: a scan request that is answered with a failure leaves the descriptor
\* set in memory as it was.
C37_FailedScanLeavesDescriptorSet ==
  [][(last'.op = "scan" /\ resp'.status # 200) => fields' = fields]_vars

\* ------------------------------------------- handlers that overlap in time
\* The request handler is an async function: every `await` hands control back
\* to the event loop, which starts or resumes other handlers meanwhile.
Slots == {"h1", "h2"}

\* no response sent yet
Pending == [status |-> 0, ok |-> FALSE, error |-> "pending"]

\* A handler in progress.  at: the await it is suspended at ("exists":
\* ensureFieldExists, "read": readFieldValue, "write": setFieldValue or
\* typeIntoField, "delete": the write of a revert has returned, "scan":
\* scanFieldsOnPage; "done": the response is sent).  domPath: the selector of
\* the descriptor it found.  prev: the value it read (set, type) or the
\* snapshot it took from the undo map (revert).  raced: for a revert, another
\* handler has recorded a snapshot for the same fieldId since this one took
\* its own.
NoHandler ==
  [op |-> "none", at |-> "idle", fieldId |-> UnknownId, text |-> <<>>,
   domPath |-> "none", prev |-> <<>>, resp |-> Pending, raced |-> FALSE]

ConcIdle == inflight = [h \in Slots |-> NoHandler]

Responded(hd, r) == [hd EXCEPT !.at = "done", !.resp = r]

\* a request arrives: the handler runs up to its first page call
Arrive(h, op, fieldId, text) ==
  /\ inflight[h].at \in {"idle", "done"}
  /\ LET hd == [NoHandler EXCEPT !.op = op, !.fieldId = fieldId, !.text = text]
         i == FindField(fields, fieldId)
     IN inflight' = [inflight EXCEPT ![h] =
          CASE op = "scan" -> [hd EXCEPT !.at = "scan", !.fieldId = UnknownId]
            [] op # "scan" /\ i = 0 -> Responded(hd, NotFound)
            [] op = "set" /\ i # 0 -> [hd EXCEPT !.at = "exists", !.domPath = fields[i].domPath]
            [] op = "type" /\ i # 0 -> [hd EXCEPT !.at = "read", !.domPath = fields[i].domPath]
            [] OTHER ->
               IF ~undoHas(undo, fieldId)
               THEN Responded(hd, NoUndoAvailable)
               ELSE [hd EXCEPT !.at = "write", !.domPath = fields[i].domPath,
                               !.prev = undo[fieldId]]]
  /\ UNCHANGED <<page, pageEvents, fields, undo, runtime, resp, last, quiet>>

\* await ensureFieldExists(page, field.domPath) returns
SetExists(h) ==
  /\ inflight[h].op = "set" /\ inflight[h].at = "exists"
  /\ inflight' = [inflight EXCEPT ![h] =
       IF ensureFieldExists(page, @.domPath) THEN [@ EXCEPT !.at = "read"]
       ELSE Responded(@, Gone)]
  /\ UNCHANGED <<page, pageEvents, fields, undo, runtime, resp, last, quiet>>

\* the reverts that have taken their snapshot of fieldId and not yet answered
Reverts(fieldId) ==
  {g \in Slots : /\ inflight[g].op = "revert" /\ inflight[g].fieldId = fieldId
                 /\ inflight[g].at \in {"write", "delete"}}

\* await readFieldValue returns; state.undo.set(field.fieldId, prev); the
\* write is called
ReadPrev(h) ==
  /\ inflight[h].op \in {"set", "type"} /\ inflight[h].at = "read"
  /\ LET hd == inflight[h] IN
     IF ~page[hd.domPath].present
     THEN /\ inflight' = [inflight EXCEPT ![h] = Responded(hd, DriverError)]
          /\ UNCHANGED undo
     ELSE /\ undo' = undoSet(undo, hd.fieldId, readFieldValue(page, hd.domPath))
          /\ inflight' = [g \in Slots |->
               IF g = h THEN [hd EXCEPT !.at = "write", !.prev = readFieldValue(page, hd.domPath)]
               ELSE IF g \in Reverts(hd.fieldId) THEN [inflight[g] EXCEPT !.raced = TRUE]
               ELSE inflight[g]]
  /\ UNCHANGED <<page, pageEvents, fields, runtime, resp, last, quiet>>

\* await setFieldValue / typeIntoField returns or throws.  A set or type
\* answers; a revert goes on to state.undo.delete.
Write(h) ==
  /\ inflight[h].op \in {"set", "type", "revert"} /\ inflight[h].at = "write"
  /\ LET hd == inflight[h] IN
     IF ~page[hd.domPath].present
     THEN /\ inflight' = [inflight EXCEPT ![h] = Responded(hd, DriverError)]
          /\ UNCHANGED page
     ELSE CASE hd.op = "set" ->
               /\ page' = setFieldValue(page, hd.domPath, hd.text)
               /\ inflight' = [inflight EXCEPT ![h] = Responded(hd, Ok)]
            [] hd.op = "type" ->
               /\ page' = typeIntoField(page, hd.domPath, hd.text)
               /\ inflight' = [inflight EXCEPT ![h] =
                    Responded(hd, IF Fillable(page[hd.domPath].kind) THEN Ok ELSE DriverError)]
            [] OTHER ->
               /\ page' = setFieldValue(page, hd.domPath, hd.prev)
               /\ inflight' = [inflight EXCEPT ![h] = [hd EXCEPT !.at = "delete"]]
  /\ UNCHANGED <<pageEvents, fields, undo, runtime, resp, last, quiet>>

\* /revert_field after its await: state.undo.delete(field.fieldId); sendJson
RevertDelete(h) ==
  /\ inflight[h].op = "revert" /\ inflight[h].at = "delete"
  /\ undo' = undoDelete(undo, inflight[h].fieldId)
  /\ inflight' = [inflight EXCEPT ![h] = Responded(@, Ok)]
  /\ UNCHANGED <<page, pageEvents, fields, runtime, resp, last, quiet>>

\* /scan_fields after its await: state.fields = ...; saveRuntimeState; sendJson
ScanDone(h) ==
  /\ inflight[h].op = "scan" /\ inflight[h].at = "scan"
  /\ fields' = scanAndPersist(fields, page)
  /\ runtime' = scanAndPersist(fields, page)
  /\ inflight' = [inflight EXCEPT ![h] = Responded(@, Ok)]
  /\ UNCHANGED <<page, pageEvents, undo, resp, last, quiet>>

\* the handler is between its first step and its response
Busy(h) == inflight[h].at \notin {"idle", "done"}

\* ... and it is the handler of a mutation request
Mutating(h) == Busy(h) /\ inflight[h].op \in {"set", "type", "revert"}

\* C21: while the handler of a set, type or revert request is between its
\* first step and its response, no other handler starts or takes a step.
C21_HandlersRunOneAtATime ==
  [][\A h \in Slots : Mutating(h) =>
       \A g \in Slots \ {h} : inflight'[g].at = inflight[g].at]_vars

\* C22: a revert that has answered ok did not remove a snapshot that another
\* request recorded after the revert had taken its own.
C22_RevertDeletesOnlyItsSnapshot ==
  \A h \in Slots :
    (inflight[h].op = "revert" /\ inflight[h].at = "done" /\ inflight[h].resp = Ok)
      => ~inflight[h].raced

\* ------------------------------------------------- the descriptor file
\* content: what the file holds ("absent": no file, "empty": created or
\* truncated and nothing written yet, "partial": some of the bytes of the JSON
\* text, "complete").  got: what the latest loadRunnerConnection returned
\* ("null": the fallback, "conn": the record) or threw ("SyntaxError").
FileIdle == file = [content |-> "absent", got |-> "unread"]

\* writeJsonFile, first half: fs.writeFileSync opens the file in place, which
\* creates it or truncates what was there
OpenTruncate(c) ==
  /\ pc[c] = "bound"
  /\ pc' = [pc EXCEPT ![c] = "writing"]
  /\ file' = [file EXCEPT !.content = "empty"]
  /\ descriptor' = NoDescriptor
  /\ UNCHANGED <<tui, port, stopped, listening, ctx>>
  /\ UNCHANGED protoVars

\* writeJsonFile, second half: the bytes reach the file, in one write
\* (whole) or in several
WriteBytes(c, whole) ==
  /\ pc[c] = "writing"
  /\ IF whole \/ file.content = "partial"
     THEN /\ file' = [file EXCEPT !.content = "complete"]
          /\ saveRunnerConnection(c)
          /\ pc' = [pc EXCEPT ![c] = "running"]
     ELSE /\ file' = [file EXCEPT !.content = "partial"]
          /\ UNCHANGED <<descriptor, pc>>
  /\ UNCHANGED <<tui, port, stopped, listening, ctx>>
  /\ UNCHANGED protoVars

\* readJsonFile(filePath, null): existsSync, readFileSync, `!raw.trim()`,
\* JSON.parse
readJsonFile(content) ==
  CASE content = "absent" -> "null"
    [] content = "empty" -> "null"
    [] content = "partial" -> "SyntaxError"
    [] OTHER -> "conn"

\* a client command reads the descriptor
LoadRunnerConnection ==
  /\ file' = [file EXCEPT !.got = readJsonFile(file.content)]
  /\ UNCHANGED <<protoVars, lifeVars>>

\* stop()'s rmSync of the file
Unlinked == file' = [file EXCEPT !.content = "absent"]

\* C27: a client that reads the descriptor file gets no record or the whole
\* record, never a reading that fails on a partly written file; and the file
\* becomes complete only while the controller that wrote it is listening, on
\* the loopback address, at the port the record names.
C27_DescriptorReadWholeOrAbsent ==
  /\ [](file.got \in {"unread", "null", "conn"})
  /\ [][(file'.content = "complete" /\ file.content # "complete") =>
          \E c \in Controllers :
            /\ listening[c] /\ bind[c] = Loopback
            /\ descriptor' = [present |-> TRUE, port |-> port[c], by |-> c]]_vars

\* ------------------------------------------------------------ the browser
\* The pages of the browser context the controller drives.  A page is a tab
\* with the document loaded in it; original tells that the document's
\* HTMLFormElement.prototype.submit is still the browser's own.
Tabs == {"t1", "t2"}

Urls == {"about:blank", "form1", "form2"}

\* context.pages()[0]: the page every handler works on
Operated == "t1"

NoTab == [url |-> "none", original |-> TRUE]

BlankTab(script) == [url |-> "about:blank", original |-> ~script]

\* mode: how the context was obtained.  phase: "closed", "context" (the
\* context and the page are there), "serving" (addInitScript has returned, the
\* server is created).  script: the init script is registered with the
\* context.  submitted: a page script's form.submit() call went through.
NoBrowser ==
  [mode |-> "none", phase |-> "closed", script |-> FALSE,
   tabs |-> [t \in Tabs |-> NoTab], submitted |-> FALSE]

BrowserIdle == browser = NoBrowser

\* managed mode: chromium.launchPersistentContext opens a browser with one
\* blank page
LaunchPersistentContext ==
  /\ browser.phase = "closed"
  /\ browser' = [NoBrowser EXCEPT !.mode = "managed", !.phase = "context",
                                  !.tabs[Operated] = BlankTab(FALSE)]

\* the tabs a browser started by the user may hold when the controller attaches
UserTabs == [Tabs -> {NoTab} \cup [url : Urls, original : {TRUE}]]

\* attach mode: chromium.connectOverCDP, browser.contexts()[0],
\* context.pages()[0] ?? newPage()
ConnectOverCDP(ts) ==
  /\ browser.phase = "closed"
  /\ browser' = [NoBrowser EXCEPT !.mode = "attach", !.phase = "context",
                                  !.tabs = [ts EXCEPT ![Operated] =
                                              IF @ = NoTab THEN BlankTab(FALSE) ELSE @]]

\* context.addInitScript(...): the script runs in every document created
\* from now on; the documents already loaded are not touched
AddInitScript ==
  /\ browser.phase = "context"
  /\ browser' = [browser EXCEPT !.script = TRUE, !.phase = "serving"]

\* the user (or the page) navigates a tab: a new document
Navigate(t, url) ==
  /\ browser.phase # "closed"
  /\ browser.tabs[t] # NoTab
  /\ browser' = [browser EXCEPT !.tabs[t] = [url |-> url, original |-> ~browser.script]]

\* a new tab opens in the context
OpenTab(t) ==
  /\ browser.phase # "closed"
  /\ browser.tabs[t] = NoTab
  /\ browser' = [browser EXCEPT !.tabs[t] = BlankTab(browser.script)]

\* a script of the page calls form.submit()
PageCallsSubmit(t) ==
  /\ browser.phase # "closed"
  /\ browser.tabs[t].url \in {"form1", "form2"}
  /\ browser' = [browser EXCEPT !.submitted = @ \/ browser.tabs[t].original]

\* the controller stops: context.close() / browser.close() (what was
\* submitted stays submitted)
CloseBrowser ==
  /\ browser.phase = "serving"
  /\ browser' = [NoBrowser EXCEPT !.submitted = browser.submitted]

\* C29: while the controller serves, the page it operates on, once it shows
\* a document other than the blank page, has the neutralized submit.
C29_OperatedPageIsGuarded ==
  (browser.phase = "serving" /\ browser.tabs[Operated].url \notin {"none", "about:blank"})
    => ~browser.tabs[Operated].original

\* ------------------------------------------------------ label resolution
\* Texts of the document are sequences of characters; " " is white space.
\* String.prototype.trim
RECURSIVE TrimStart(_)
TrimStart(t) == IF t # <<>> /\ Head(t) = " " THEN TrimStart(Tail(t)) ELSE t

RECURSIVE TrimEnd(_)
TrimEnd(t) == IF t # <<>> /\ t[Len(t)] = " " THEN TrimEnd(SubSeq(t, 1, Len(t) - 1)) ELSE t

Trim(t) == TrimEnd(TrimStart(t))

\* Array.prototype.join(" ")
RECURSIVE JoinSpaces(_)
JoinSpaces(ts) ==
  IF ts = <<>> THEN <<>>
  ELSE IF Len(ts) = 1 THEN ts[1]
  ELSE ts[1] \o <<" ">> \o JoinSpaces(Tail(ts))

\* The label sources of one element.  byFor: the textContent of the first
\* label[for=id] (<<>>: the element has no id, or no such label).  wrapping:
\* the textContent of the closest <label> ancestor (<<>>: none).  aria, name,
\* placeholder: the attributes (<<>>: absent or empty).  labelledBy: for each
\* id listed in aria-labelledby, the textContent of the element it names
\* (<<>>: no element has that id; the attribute absent: no ids).
SourceTexts(letter) == {<<>>, <<" ">>, <<" ", letter, " ">>}

ReferencedTexts == {<<>>, <<" ">>, <<"l", " ">>, <<"m">>}

MaxLabelledBy == 2

LabelSources ==
  [byFor : SourceTexts("f"), wrapping : SourceTexts("w"), aria : SourceTexts("a"),
   labelledBy : UNION {[1..n -> ReferencedTexts] : n \in 0..MaxLabelledBy},
   name : SourceTexts("n"), placeholder : SourceTexts("p")]

Unlabeled == <<"(unlabeled field)">>

\* readLabel(el), on the sources of el: the text it returns and which of its
\* return statements returned it (7: the sentinel)
readLabelText(c) ==
  LET nodes == SelectSeq([i \in 1..Len(c.labelledBy) |-> Trim(c.labelledBy[i])],
                         LAMBDA t : t # <<>>)
  IN  IF c.byFor # <<>> /\ Trim(c.byFor) # <<>> THEN [text |-> Trim(c.byFor), rank |-> 1]
      ELSE IF c.wrapping # <<>> /\ Trim(c.wrapping) # <<>> THEN [text |-> Trim(c.wrapping), rank |-> 2]
      ELSE IF c.aria # <<>> /\ Trim(c.aria) # <<>> THEN [text |-> Trim(c.aria), rank |-> 3]
      ELSE IF c.labelledBy # <<>> /\ Len(nodes) > 0 THEN [text |-> JoinSpaces(nodes), rank |-> 4]
      ELSE IF c.name # <<>> THEN [text |-> c.name, rank |-> 5]
      ELSE IF c.placeholder # <<>> THEN [text |-> c.placeholder, rank |-> 6]
      ELSE [text |-> Unlabeled, rank |-> 7]

NotRead == [text |-> <<>>, rank |-> 0]

NoSources ==
  [byFor |-> <<>>, wrapping |-> <<>>, aria |-> <<>>, labelledBy |-> <<>>,
   name |-> <<>>, placeholder |-> <<>>]

LabelIdle == lab = [el |-> NoSources, out |-> NotRead]

\* scanFieldsOnPage's nodes.map: label: readLabel(el)
ReadLabel ==
  /\ lab.out = NotRead
  /\ lab' = [lab EXCEPT !.out = readLabelText(lab.el)]

\* the candidate of each priority, as the claim lists them
Candidate(c, k) ==
  CASE k = 1 -> c.byFor
    [] k = 2 -> c.wrapping
    [] k = 3 -> c.aria
    [] k = 4 -> JoinSpaces(SelectSeq(c.labelledBy, LAMBDA t : t # <<>>))
    [] k = 5 -> c.name
    [] OTHER -> c.placeholder

\* C33: the label comes from the first source, in the order label[for],
\* wrapping label, aria-label, aria-labelledby, name, placeholder, that is not
\* empty and not white space only; the sentinel is returned when there is
\* none.
C33_FirstNonBlankSourceWins ==
  lab.out # NotRead =>
    LET winners == {k \in 1..6 : Trim(Candidate(lab.el, k)) # <<>>} IN
    /\ lab.out.rank = IF winners = {} THEN 7 ELSE CHOOSE k \in winners : \A j \in winners : k <= j
    /\ lab.out.rank = 7 <=> lab.out.text = Unlabeled

\* ------------------------------------------------ the TUI's keypress loop
\* on: the keypress listener is registered.  running, busy: the flags of
\* runInteractiveTui.  initial: the scan() call of its line 603.  action: the
\* key whose handler is waiting for a request or a prompt.  requests: the
\* runnerRequest calls that have gone out and are not settled.  nfields,
\* selected, helpOpen: state.fields.length, state.selected, state.helpOpen.
\* dropped: the latest keypress returned at the `!running || busy` test.
NoLoop ==
  [on |-> FALSE, running |-> FALSE, busy |-> FALSE, initial |-> "none",
   action |-> "none", requests |-> 0, nfields |-> 0, selected |-> 0,
   helpOpen |-> FALSE, dropped |-> FALSE]

LoopIdle == loop = NoLoop

\* the keys of the model: scan, move down / up, highlight, undo, help, quit
TuiKeys == {"r", "j", "k", "h", "u", "?", "q"}

\* the keys whose handler awaits a runnerRequest
RequestKeys == {"r", "h", "u"}

\* how many fields a scan of the TUI lists
ScanSizes == {0, 2}

\* scan(): state.fields = payload.fields, state.selected clamped
Scanned(lp, n) ==
  [lp EXCEPT !.nfields = n,
             !.selected = IF n = 0 THEN 0 ELSE IF lp.selected < n - 1 THEN lp.selected ELSE n - 1]

\* runInteractiveTui up to its first await: busy = false, running = true,
\* process.stdin.on("keypress", onKeypress), then scan() sends /scan_fields
RunInteractiveTui ==
  /\ loop.initial = "none"
  /\ loop' = [loop EXCEPT !.on = TRUE, !.running = TRUE, !.busy = FALSE,
                          !.initial = "pending", !.requests = @ + 1]

\* the initial scan settles; when it throws, the finally block removes the
\* listener and runInteractiveTui rejects
InitialScanSettles(ok, n) ==
  /\ loop.initial = "pending"
  /\ loop' = IF ok
             THEN [Scanned(loop, n) EXCEPT !.initial = "done", !.requests = @ - 1]
             ELSE [loop EXCEPT !.initial = "failed", !.requests = @ - 1, !.on = FALSE]

\* onKeypress(str, key), up to its first await (the handlers of ?, j and k
\* have none and reach `finally { busy = false }` at once)
onKeypress(key) ==
  /\ loop.on
  /\ loop' =
       IF ~loop.running \/ loop.busy THEN [loop EXCEPT !.dropped = TRUE]
       ELSE LET lp == [loop EXCEPT !.dropped = FALSE] IN
            CASE key = "?" -> [lp EXCEPT !.helpOpen = ~@]
              [] key = "j" -> [lp EXCEPT !.selected = IF lp.nfields > 0 /\ @ < lp.nfields - 1 THEN @ + 1 ELSE @]
              [] key = "k" -> [lp EXCEPT !.selected = IF lp.nfields > 0 /\ @ > 0 THEN @ - 1 ELSE @]
              [] key = "q" -> [lp EXCEPT !.busy = TRUE, !.action = "q"]
              [] key = "r" -> [lp EXCEPT !.busy = TRUE, !.action = "r", !.requests = @ + 1]
              [] OTHER -> IF lp.nfields = 0 THEN lp
                          ELSE [lp EXCEPT !.busy = TRUE, !.action = key, !.requests = @ + 1]

\* the request of the r, h or u handler settles: catch sets the status of a
\* failure, finally resets busy
ActionSettles(ok, n) ==
  /\ loop.action \in RequestKeys
  /\ LET lp == [loop EXCEPT !.action = "none", !.busy = FALSE, !.requests = @ - 1] IN
     loop' = IF loop.action = "r" /\ ok THEN Scanned(lp, n) ELSE lp

\* the answer to "Quit TUI?": finish() on yes
QuitAnswered(raw) ==
  /\ loop.action = "q"
  /\ loop' = IF confirm(raw, TRUE)
             THEN [loop EXCEPT !.action = "none", !.busy = FALSE, !.running = FALSE, !.on = FALSE]
             ELSE [loop EXCEPT !.action = "none", !.busy = FALSE]

\* C40: the TUI has at most one controller request in flight, and a keypress
\* that arrives while a request of the TUI is in flight is dropped.
C40_TuiOneRequestInFlight == loop.requests <= 1

\* the parts of the state that only ConcSpec, PubSpec, GuardSpec, LabelSpec
\* and TuiSpec move
AuxIdle == ConcIdle /\ FileIdle /\ BrowserIdle /\ LabelIdle /\ LoopIdle

\* ------------------------------------------------------ the specifications
Init ==
  /\ ProtoInit
  /\ LifeInit
  /\ DomIdle
  /\ ClientIdle
  /\ AuxIdle

Next ==
  \/ \E fault \in Faults : ScanFields(fault) /\ UNCHANGED <<domVars, bind, client, auxVars>>
  \/ \E id \in RequestIds : HighlightField(id) /\ UNCHANGED <<domVars, bind, client, auxVars>>
  \/ \E id \in RequestIds : ReadFieldValue(id) /\ UNCHANGED <<domVars, bind, client, auxVars>>
  \/ \E id \in RequestIds, text \in Texts : SetFieldValue(id, text) /\ UNCHANGED <<domVars, bind, client, auxVars>>
  \/ \E id \in RequestIds, text \in Texts : TypeIntoField(id, text) /\ UNCHANGED <<domVars, bind, client, auxVars>>
  \/ \E id \in RequestIds : RevertField(id) /\ UNCHANGED <<domVars, bind, client, auxVars>>
  \/ \E p \in Paths : ElementRemoved(p) /\ UNCHANGED <<domVars, bind, client, auxVars>>
  \/ \E p \in Paths : ElementAdded(p) /\ UNCHANGED <<domVars, bind, client, auxVars>>

Spec == Init /\ [][Next]_vars

LifeStart ==
  /\ LifeInit
  /\ ProtoInit
  /\ DomIdle
  /\ ClientIdle
  /\ \A p \in Paths : page[p].value = <<>> /\ page[p].kind # "input:submit"
  /\ AuxIdle

LifeNext ==
  \/ \E c \in Controllers, i \in BOOLEAN, q \in Ports, ok \in BOOLEAN : Launch(c, i, q, ok) /\ UNCHANGED <<domVars, bind, client, auxVars>>
  \/ \E c \in Controllers : Listen(c) /\ UNCHANGED <<domVars, client, auxVars>>
  \/ \E c \in Controllers : Publish(c) /\ UNCHANGED <<domVars, bind, client, auxVars>>
  \/ \E c \in Controllers : Signal(c) /\ UNCHANGED <<domVars, bind, client, auxVars>>
  \/ \E c \in Controllers : TuiExit(c) /\ UNCHANGED <<domVars, bind, client, auxVars>>
  \/ \E c \in Controllers : ListenerClosed(c) /\ UNCHANGED <<domVars, bind, client, auxVars>>
  \/ \E c \in Controllers, ok \in BOOLEAN : ContextReleased(c, ok) /\ UNCHANGED <<domVars, bind, client, auxVars>>
  \/ \E c \in Controllers : RemoveDescriptor(c) /\ UNCHANGED <<domVars, bind, client, auxVars>>
  \/ \E c \in Controllers : Fault(c) /\ UNCHANGED <<domVars, bind, client, auxVars>>

LifeSpec == LifeStart /\ [][LifeNext]_vars

\* the descriptors of repeated scans of a document that changes in between
DomStart ==
  /\ DomInit
  /\ LifeInit
  /\ ProtoInit
  /\ ClientIdle
  /\ \A p \in Paths : page[p].value = <<>> /\ page[p].kind # "input:submit"
  /\ AuxIdle

DomNext ==
  \/ ScanDom /\ UNCHANGED <<protoVars, lifeVars, bind, client, auxVars>>
  \/ \E n \in Nodes : RemoveField(n) /\ UNCHANGED <<protoVars, lifeVars, bind, client, auxVars>>
  \/ \E n \in Nodes, k \in Parents, i \in 1..Cardinality(Nodes), id \in ElementIds, l \in Labels :
       InsertField(n, k, i, id, l) /\ UNCHANGED <<protoVars, lifeVars, bind, client, auxVars>>
  \/ \E n \in Nodes, k \in Parents, i \in 1..Cardinality(Nodes) :
       MoveField(n, k, i) /\ UNCHANGED <<protoVars, lifeVars, bind, client, auxVars>>
  \/ \E n \in Nodes, l \in Labels : RelabelField(n, l) /\ UNCHANGED <<protoVars, lifeVars, bind, client, auxVars>>

DomSpec == DomStart /\ [][DomNext]_vars

\* one controller that has started and published, serving CLI commands and
\* the TUI's apply while the page changes
LifeServing ==
  /\ pc = [c \in Controllers |-> IF c = "c1" THEN "running" ELSE "idle"]
  /\ tui = [c \in Controllers |-> FALSE]
  /\ port = [c \in Controllers |-> "portA"]
  /\ stopped = [c \in Controllers |-> FALSE]
  /\ listening = [c \in Controllers |-> c = "c1"]
  /\ ctx = [c \in Controllers |-> IF c = "c1" THEN "open" ELSE "none"]
  /\ descriptor = [present |-> TRUE, port |-> "portA", by |-> "c1"]
  /\ bind = [c \in Controllers |-> IF c = "c1" THEN ListenHost(FALSE, "portA") ELSE "none"]

\* the fields the commands of ApplySpec name: the element at p1, whichever
\* kind it is, and a field no scan returns
ApplyIds == {makeFieldId("p1", LabelOf("p1"), k) : k \in KindsAt("p1")} \cup {UnknownId}

ApplyStart ==
  /\ ProtoInit
  /\ \A p \in Paths : page[p].value = <<>>
  /\ LifeServing
  /\ DomIdle
  /\ ClientIdle
  /\ AuxIdle

ApplyNext ==
  \/ \E id \in ApplyIds, text \in Texts \ {<<>>} : StartApply(id, text)
  \/ ApplyGetField
  \/ ApplySet
  \/ ApplyType
  \/ ApplyPageInfo
  \/ ApplySaveHistory
  \/ ClientScan
  \/ \E id \in ApplyIds : ClientRevert(id)
  \/ \E id \in ApplyIds \ {UnknownId}, text \in Texts : TuiPressA(id, text)
  \/ \E raw \in Answers : TuiAnswer(raw)
  \/ \E p \in {"p1"} : ElementRemoved(p) /\ UNCHANGED <<domVars, bind, client, auxVars>>
  \/ \E p \in {"p1"} : ElementAdded(p) /\ UNCHANGED <<domVars, bind, client, auxVars>>

ApplySpec == ApplyStart /\ [][ApplyNext]_vars

\* CLI commands issued while a controller starts, stops, dies and is started
\* again (each Launch is a new process)
ClientControllers == {"c1"}

ClientNext ==
  \/ \E c \in ClientControllers, i \in BOOLEAN, q \in Ports : Launch(c, i, q, TRUE) /\ UNCHANGED <<domVars, bind, client, auxVars>>
  \/ \E c \in ClientControllers : Listen(c) /\ UNCHANGED <<domVars, client, auxVars>>
  \/ \E c \in ClientControllers : Publish(c) /\ UNCHANGED <<domVars, bind, client, auxVars>>
  \/ \E c \in ClientControllers : Signal(c) /\ UNCHANGED <<domVars, bind, client, auxVars>>
  \/ \E c \in ClientControllers : TuiExit(c) /\ UNCHANGED <<domVars, bind, client, auxVars>>
  \/ \E c \in ClientControllers : ListenerClosed(c) /\ UNCHANGED <<domVars, bind, client, auxVars>>
  \/ \E c \in ClientControllers : ContextReleased(c, TRUE) /\ UNCHANGED <<domVars, bind, client, auxVars>>
  \/ \E c \in ClientControllers : RemoveDescriptor(c) /\ UNCHANGED <<domVars, bind, client, auxVars>>
  \/ \E c \in ClientControllers : Fault(c) /\ UNCHANGED <<domVars, bind, client, auxVars>>
  \/ StartApply(makeFieldId("p2", LabelOf("p2"), "textarea"), <<"a">>)
  \/ ApplyGetField
  \/ ApplySet
  \/ ApplyType
  \/ ApplyPageInfo
  \/ ApplySaveHistory
  \/ ClientScan
  \/ ClientScanHangs

ClientSpec == LifeStart /\ [][ClientNext]_vars

\* requests of two clients that overlap at one controller
ConcIds == {makeFieldId("p1", LabelOf("p1"), "input:text"), makeFieldId("p2", LabelOf("p2"), "textarea")}

ConcStart ==
  /\ ProtoInit
  /\ \A p \in Paths : page[p].value = <<>> /\ page[p].kind # "input:submit"
  /\ LifeServing
  /\ DomIdle
  /\ ClientIdle
  /\ AuxIdle

ConcNext ==
  \/ \E h \in Slots, op \in {"scan", "set", "type", "revert"}, id \in ConcIds, text \in {<<"a">>} :
       Arrive(h, op, id, text) /\ UNCHANGED <<lifeVars, domVars, bind, client, file, browser, lab, loop>>
  \/ \E h \in Slots : SetExists(h) /\ UNCHANGED <<lifeVars, domVars, bind, client, file, browser, lab, loop>>
  \/ \E h \in Slots : ReadPrev(h) /\ UNCHANGED <<lifeVars, domVars, bind, client, file, browser, lab, loop>>
  \/ \E h \in Slots : Write(h) /\ UNCHANGED <<lifeVars, domVars, bind, client, file, browser, lab, loop>>
  \/ \E h \in Slots : RevertDelete(h) /\ UNCHANGED <<lifeVars, domVars, bind, client, file, browser, lab, loop>>
  \/ \E h \in Slots : ScanDone(h) /\ UNCHANGED <<lifeVars, domVars, bind, client, file, browser, lab, loop>>

ConcSpec == ConcStart /\ [][ConcNext]_vars

\* every endpoint of one running controller, with the requests clients can
\* get wrong
ServeIds == RequestIds \cup {NoFieldId}

ServeStart ==
  /\ ProtoInit
  /\ \A p \in Paths : page[p].value = <<>>
  /\ LifeServing
  /\ DomIdle
  /\ ClientIdle
  /\ AuxIdle

ServeNext ==
  \/ Health /\ UNCHANGED <<domVars, bind, client, auxVars>>
  \/ GetFields /\ UNCHANGED <<domVars, bind, client, auxVars>>
  \/ UnknownEndpoint /\ UNCHANGED <<domVars, bind, client, auxVars>>
  \/ \E op \in BodyOps : MalformedBody(op) /\ UNCHANGED <<domVars, bind, client, auxVars>>
  \/ \E fault \in ScanFaults : ScanFields(fault) /\ UNCHANGED <<domVars, bind, client, auxVars>>
  \/ \E fault \in Faults : PageInfo(fault) /\ UNCHANGED <<domVars, bind, client, auxVars>>
  \/ \E id \in ServeIds : GetField(id) /\ UNCHANGED <<domVars, bind, client, auxVars>>
  \/ \E id \in ServeIds : HighlightField(id) /\ UNCHANGED <<domVars, bind, client, auxVars>>
  \/ \E id \in ServeIds : ReadFieldValue(id) /\ UNCHANGED <<domVars, bind, client, auxVars>>
  \/ \E id \in ServeIds, text \in {<<"a">>} : SetFieldValue(id, text) /\ UNCHANGED <<domVars, bind, client, auxVars>>
  \/ \E id \in ServeIds, text \in {<<"a">>} : TypeIntoField(id, text) /\ UNCHANGED <<domVars, bind, client, auxVars>>
  \/ \E id \in ServeIds : RevertField(id) /\ UNCHANGED <<domVars, bind, client, auxVars>>
  \/ \E p \in Paths : ElementRemoved(p) /\ UNCHANGED <<domVars, bind, client, auxVars>>
  \/ \E p \in Paths : ElementAdded(p) /\ UNCHANGED <<domVars, bind, client, auxVars>>

ServeSpec == ServeStart /\ [][ServeNext]_vars

\* a controller that starts, writes the descriptor file and stops, while
\* client commands read the file
PubNext ==
  \/ \E c \in ClientControllers, i \in BOOLEAN, q \in Ports : Launch(c, i, q, TRUE) /\ UNCHANGED <<domVars, bind, client, auxVars>>
  \/ \E c \in ClientControllers : Listen(c) /\ UNCHANGED <<domVars, client, auxVars>>
  \/ \E c \in ClientControllers : OpenTruncate(c) /\ UNCHANGED <<domVars, bind, client, inflight, browser, lab, loop>>
  \/ \E c \in ClientControllers, whole \in BOOLEAN : WriteBytes(c, whole) /\ UNCHANGED <<domVars, bind, client, inflight, browser, lab, loop>>
  \/ LoadRunnerConnection /\ UNCHANGED <<domVars, bind, client, inflight, browser, lab, loop>>
  \/ \E c \in ClientControllers : Signal(c) /\ UNCHANGED <<domVars, bind, client, auxVars>>
  \/ \E c \in ClientControllers : TuiExit(c) /\ UNCHANGED <<domVars, bind, client, auxVars>>
  \/ \E c \in ClientControllers : ListenerClosed(c) /\ UNCHANGED <<domVars, bind, client, auxVars>>
  \/ \E c \in ClientControllers, ok \in BOOLEAN : ContextReleased(c, ok) /\ UNCHANGED <<domVars, bind, client, auxVars>>
  \/ \E c \in ClientControllers : RemoveDescriptor(c) /\ Unlinked /\ UNCHANGED <<domVars, bind, client, inflight, browser, lab, loop>>

PubSpec == LifeStart /\ [][PubNext]_vars

\* the lifecycle without faults from outside: every end of a process is one
\* cmdRun itself reaches (stop, a signal)
StopNext ==
  \/ \E c \in Controllers, i \in BOOLEAN, q \in Ports, ok \in BOOLEAN : Launch(c, i, q, ok) /\ UNCHANGED <<domVars, bind, client, auxVars>>
  \/ \E c \in Controllers : Listen(c) /\ UNCHANGED <<domVars, client, auxVars>>
  \/ \E c \in Controllers : Publish(c) /\ UNCHANGED <<domVars, bind, client, auxVars>>
  \/ \E c \in Controllers : Signal(c) /\ UNCHANGED <<domVars, bind, client, auxVars>>
  \/ \E c \in Controllers : TuiExit(c) /\ UNCHANGED <<domVars, bind, client, auxVars>>
  \/ \E c \in Controllers : ListenerClosed(c) /\ UNCHANGED <<domVars, bind, client, auxVars>>
  \/ \E c \in Controllers, ok \in BOOLEAN : ContextReleased(c, ok) /\ UNCHANGED <<domVars, bind, client, auxVars>>
  \/ \E c \in Controllers : RemoveDescriptor(c) /\ UNCHANGED <<domVars, bind, client, auxVars>>

StopSpec == LifeStart /\ [][StopNext]_vars

\* the start of a controller in either mode, and what happens in the browser
GuardNext ==
  \/ LaunchPersistentContext /\ UNCHANGED <<protoVars, lifeVars, domVars, bind, client, inflight, file, lab, loop>>
  \/ \E ts \in UserTabs : ConnectOverCDP(ts) /\ UNCHANGED <<protoVars, lifeVars, domVars, bind, client, inflight, file, lab, loop>>
  \/ AddInitScript /\ UNCHANGED <<protoVars, lifeVars, domVars, bind, client, inflight, file, lab, loop>>
  \/ \E t \in Tabs, url \in Urls : Navigate(t, url) /\ UNCHANGED <<protoVars, lifeVars, domVars, bind, client, inflight, file, lab, loop>>
  \/ \E t \in Tabs : OpenTab(t) /\ UNCHANGED <<protoVars, lifeVars, domVars, bind, client, inflight, file, lab, loop>>
  \/ \E t \in Tabs : PageCallsSubmit(t) /\ UNCHANGED <<protoVars, lifeVars, domVars, bind, client, inflight, file, lab, loop>>
  \/ CloseBrowser /\ UNCHANGED <<protoVars, lifeVars, domVars, bind, client, inflight, file, lab, loop>>

GuardSpec == LifeStart /\ [][GuardNext]_vars

\* readLabel on every combination of label sources
LabelStart ==
  /\ ProtoInit
  /\ \A p \in Paths : page[p].value = <<>> /\ page[p].kind # "input:submit"
  /\ LifeInit
  /\ DomIdle
  /\ ClientIdle
  /\ ConcIdle /\ FileIdle /\ BrowserIdle /\ LoopIdle
  /\ lab \in [el : LabelSources, out : {NotRead}]

LabelNext == ReadLabel /\ UNCHANGED <<protoVars, lifeVars, domVars, bind, client, inflight, file, browser, loop>>

LabelSpec == LabelStart /\ [][LabelNext]_vars

\* the keypress loop of the TUI against a controller that answers
TuiStart ==
  /\ ProtoInit
  /\ \A p \in Paths : page[p].value = <<>> /\ page[p].kind # "input:submit"
  /\ LifeServing
  /\ DomIdle
  /\ ClientIdle
  /\ AuxIdle

TuiNext ==
  \/ RunInteractiveTui /\ UNCHANGED <<protoVars, lifeVars, domVars, bind, client, inflight, file, browser, lab>>
  \/ \E ok \in BOOLEAN, n \in ScanSizes : InitialScanSettles(ok, n) /\ UNCHANGED <<protoVars, lifeVars, domVars, bind, client, inflight, file, browser, lab>>
  \/ \E key \in TuiKeys : onKeypress(key) /\ UNCHANGED <<protoVars, lifeVars, domVars, bind, client, inflight, file, browser, lab>>
  \/ \E ok \in BOOLEAN, n \in ScanSizes : ActionSettles(ok, n) /\ UNCHANGED <<protoVars, lifeVars, domVars, bind, client, inflight, file, browser, lab>>
  \/ \E raw \in Answers : QuitAnswered(raw) /\ UNCHANGED <<protoVars, lifeVars, domVars, bind, client, inflight, file, browser, lab>>

TuiSpec == TuiStart /\ [][TuiNext]_vars

====
